---- MODULE Spec2Model ----
(***************************************************************************)
(* Clip-assembly pipeline of ClipGenius.                                   *)
(*                                                                         *)
(*   lib/video/processor.ts  processAllClips      (batch coordinator)      *)
(*   lib/utils/ffmpeg.ts     processClipComplete, processClipWithHook,     *)
(*                           getVideoDimensions, concatenateWithFadeToBlack*)
(*   lib/video/captioner.ts  generateSrt                                   *)
(*                                                                         *)
(* Every `await` of the source is one step of the model: the step is the   *)
(* completion of the awaited external call (ffprobe, ffmpeg, a file        *)
(* write or unlink, the timer) with its outcome chosen by the environment, *)
(* followed by the synchronous code up to the next `await`.                *)
(*                                                                         *)
(* The optional onProgress callback of processAllClips is left out: its    *)
(* only caller (app/api/process/route.ts) passes none.                     *)
(***************************************************************************)
EXTENDS Integers, Sequences, FiniteSets, TLC

(* ---------------------------- bounds ----------------------------------- *)

\* longest clip list handed to processAllClips
MaxClips == 2

\* number of distinct clip ids the clip lists are drawn from
NumIds == 3

\* focusX is drawn from the multiples of 1 / 2^FocusBits in [0,1]
FocusBits == 1

(* ------------------------- program constants --------------------------- *)

targetWidth == 1080

targetHeight == 1920

FocusDen == 2 ^ FocusBits

\* focusX === undefined
NoFocus == 0 - 1

\* the literal 0.5 the coordinator passes as focusX
CenterFocus == FocusDen \div 2

\* error?: string left out of a result
Undefined == "undefined"

ErrFFmpegMissing == "FFmpeg is not installed. Please install FFmpeg to process videos."

ErrMkdir == "mkdir failed"

ErrWriteFile == "writeFile failed"

ErrProbe == "Command failed: ffprobe"

ErrEncode == "Command failed: ffmpeg"

ErrDuration == "Command failed: ffprobe duration"

ErrConcat == "Command failed: ffmpeg xfade"

ClipIds == 1..NumIds

\* path.join(OUTPUT_DIR, `${sanitizedTitle}_${clip.id.substring(0, 8)}.mp4`)
OutputPathOf(clip) == [dir |-> "output", file |-> clip.id]

\* the outputPath: '' of an error result
EmptyPath == [dir |-> "", file |-> 0]

\* what ffprobe's stdout parses to: width x height, or NaN after Number()
ProbeOutputs ==
    { [width |-> 1920, height |-> 1080, nan |-> FALSE],
      [width |-> 1080, height |-> 1920, nan |-> FALSE],
      [width |-> 1080, height |-> 1080, nan |-> FALSE],
      [width |-> 0, height |-> 0, nan |-> TRUE] }

(* --------------------------- geometry ---------------------------------- *)

\* Math.round(n / d) for d > 0: floor(n/d + 1/2)
Round(n, d) == (2 * n + d) \div (2 * d)

Max(a, b) == IF a > b THEN a ELSE b

Min(a, b) == IF a < b THEN a ELSE b

focusPoint(focusX) == IF focusX = NoFocus THEN CenterFocus ELSE focusX

\* variant: the aspect comparison reversed, so a wide frame is cut as a
\* tall one
computeCropReversed(dims, focusX) ==
    IF dims.nan
    THEN [cropWidth |-> 0, cropHeight |-> 0, cropX |-> 0, cropY |-> 0, nan |-> TRUE]
    ELSE IF dims.width * targetHeight < targetWidth * dims.height
         THEN LET cropWidth == Round(dims.height * targetWidth, targetHeight)
                  maxCropX  == dims.width - cropWidth
                  rawX      == Round(maxCropX * focusPoint(focusX), FocusDen)
              IN [cropWidth  |-> cropWidth,
                  cropHeight |-> dims.height,
                  cropX      |-> Max(0, Min(rawX, maxCropX)),
                  cropY      |-> 0,
                  nan        |-> FALSE]
         ELSE LET cropHeight == Round(dims.width * targetHeight, targetWidth)
              IN [cropWidth  |-> dims.width,
                  cropHeight |-> cropHeight,
                  cropX      |-> 0,
                  cropY      |-> Round(dims.height - cropHeight, 2),
                  nan        |-> FALSE]

\* the crop block of processClipComplete (processClipWithHook repeats it).
\* A NaN width or height makes sourceRatio NaN, the comparison false and
\* cropY NaN: the record then only carries nan = TRUE.
computeCrop(dims, focusX) ==
    IF dims.nan
    THEN [cropWidth |-> 0, cropHeight |-> 0, cropX |-> 0, cropY |-> 0, nan |-> TRUE]
    ELSE IF dims.width * targetHeight > targetWidth * dims.height
         THEN LET cropWidth == Round(dims.height * targetWidth, targetHeight)
                  maxCropX  == dims.width - cropWidth
                  rawX      == Round(maxCropX * focusPoint(focusX), FocusDen)
              IN [cropWidth  |-> cropWidth,
                  cropHeight |-> dims.height,
                  cropX      |-> Max(0, Min(rawX, maxCropX)),
                  cropY      |-> 0,
                  nan        |-> FALSE]
         ELSE LET cropHeight == Round(dims.width * targetHeight, targetWidth)
              IN [cropWidth  |-> dims.width,
                  cropHeight |-> cropHeight,
                  cropX      |-> 0,
                  cropY      |-> Round(dims.height - cropHeight, 2),
                  nan        |-> FALSE]

NoCrop == [cropWidth |-> 0, cropHeight |-> 0, cropX |-> 0, cropY |-> 0, nan |-> FALSE]

\* the crop block of processClipWithHook for probed numbers
hookComputeCrop(dims, focusX) ==
    IF dims.nan
    THEN [cropWidth |-> 0, cropHeight |-> 0, cropX |-> 0, cropY |-> 0, nan |-> TRUE]
    ELSE IF dims.width * targetHeight > targetWidth * dims.height
         THEN LET cropWidth == Round(dims.height * targetWidth, targetHeight)
                  maxCropX  == dims.width - cropWidth
                  rawX      == Round(maxCropX * focusPoint(focusX), FocusDen)
              IN [cropWidth  |-> cropWidth,
                  cropHeight |-> dims.height,
                  cropX      |-> Max(0, Min(rawX, maxCropX)),
                  cropY      |-> 0,
                  nan        |-> FALSE]
         ELSE LET cropHeight == Round(dims.width * targetHeight, targetWidth)
              IN [cropWidth  |-> dims.width,
                  cropHeight |-> cropHeight,
                  cropX      |-> 0,
                  cropY      |-> Round(dims.height - cropHeight, 2),
                  nan        |-> FALSE]

(* ----------------------------- state ----------------------------------- *)

VARIABLES
    pc,            \* position of the processAllClips call
    clips,         \* its clips argument: sequence of [id, hasHook]
    hasTranscript, \* transcript.segments && transcript.segments.length > 0
    ffmpeg,        \* what checkFFmpeg answered: "unknown", "yes", "no"
    idx,           \* position of the for-of loop (1-based)
    phase,         \* per clip: where its loop body stands
    shape,         \* per clip: the renderer the coordinator called
    cur,           \* the loop body's locals and what it has done so far
    results,       \* the results array
    thrown,        \* the error processAllClips rejected with
    srtFiles,      \* clip ids whose temp/<id>.srt exists
    outFiles,      \* per clip id: the output file "missing", "empty", "ok"
    hookPc,        \* position of the processClipWithHook call
    hookArgs,      \* its srtPath / focusX arguments
    hookCrop,      \* the crop rectangle it computed
    hookTemp,      \* <base>_hook_temp.mp4 exists
    mainTemp,      \* <base>_main_temp.mp4 exists
    hookOutput,    \* outputPath exists
    hookWritten,   \* both temporary files have been written
    hookUnlink,    \* which unlink calls were made and how they ended
    hookError,     \* the error processClipWithHook rejected with
    pauses,        \* loop positions after which the 1 second timer ran
    reqPc,         \* position of the POST /api/process handler
    project,       \* the request's project in output/projects.json
    addPos,        \* position of the loop over the successful results
    addCalls,      \* file names addClipToProject was called with
    response       \* the JSON response of the handler

batchVars == <<pc, clips, hasTranscript, ffmpeg, idx, phase, shape, cur,
               results, thrown, srtFiles, outFiles, pauses>>

hookVars == <<hookPc, hookArgs, hookCrop, hookTemp, mainTemp, hookOutput,
              hookWritten, hookUnlink, hookError>>

routeVars == <<reqPc, project, addPos, addCalls, response>>

\* the variables of the other operations, which the batch coordinator and
\* the hook renderer never touch
VARIABLES
    cropPc,        \* crop block: "input", "computed"
    cropIn,        \* the probed width and height and the focusX argument
    cropOut,       \* the rectangle of processClipComplete
    cropOutHook,   \* the rectangle of processClipWithHook
    manPc,         \* position of parseManualAnalysis
    manIdx,        \* position of its loop over clipSections (1-based)
    sections,      \* the sections its loop has taken up so far
    manualClips,   \* its clips array
    anPc,          \* position of the analyzeTranscript call
    videoDuration, \* its videoDuration argument
    recs,          \* analysis.recommendations as parsed
    recommendations, \* the array analyzeTranscript returns
    timePc,        \* timestamp conversion: "input", "formatted", "parsed"
    timeIn,        \* the seconds given to formatTime
    timeStr,       \* the timestamp string
    timeOut        \* what parseTimestamp returned

cropVars == <<cropPc, cropIn, cropOut, cropOutHook>>

manualVars == <<manPc, manIdx, sections, manualClips>>

analyzeVars == <<anPc, videoDuration, recs, recommendations>>

timeVars == <<timePc, timeIn, timeStr, timeOut>>

VARIABLES
    srtPc,         \* position of the generateSrt call
    srtIn,         \* its segments, startOffset and endTime arguments
    srtCues,       \* the cues of srtContent, in the order written
    stampPc,       \* caption timestamp: "input", "formatted"
    stampIn,       \* the seconds given to formatSrtTimestamp
    stampOut,      \* the fields and the text it returned
    namePc,        \* file naming: "input", "named"
    nameIn,        \* two clips of one batch: id and title
    namePaths,     \* per clip the paths used for it
    store,         \* the projects array in output/projects.json
    cpc,           \* per caller: position of its project store call
    op,            \* per caller: the call it is in and its arguments
    local,         \* per caller: the projects array it read and changes
    callsLeft,     \* store calls the requests may still start
    nextId,        \* stands for uuidv4(): the next project id handed out
    log,           \* the calls that ended, with how they ended
    now,           \* Date.now(), in milliseconds
    lastRequestTime, \* the module variable of rateLimitedRequest
    rpc,           \* per caller: position of its rateLimitedRequest call
    wakeAt,        \* per caller: when its setTimeout is due
    requestsLeft,  \* calls of rateLimitedRequest still to be made
    starts         \* the times at which requestFn was called

srtVars == <<srtPc, srtIn, srtCues>>

stampVars == <<stampPc, stampIn, stampOut>>

nameVars == <<namePc, nameIn, namePaths>>

storeVars == <<store, cpc, op, local, callsLeft, nextId, log>>

rateVars == <<now, lastRequestTime, rpc, wakeAt, requestsLeft, starts>>

lateVars == <<srtVars, stampVars, nameVars, storeVars, rateVars>>

pureVars == <<cropVars, manualVars, analyzeVars, timeVars, lateVars>>

otherVars == <<routeVars, pureVars>>

vars == <<pc, clips, hasTranscript, ffmpeg, idx, phase, shape, cur,
          results, thrown, srtFiles, outFiles,
          hookPc, hookArgs, hookCrop, hookTemp, mainTemp, hookOutput,
          hookWritten, hookUnlink, hookError, pauses, otherVars>>

\* the locals of one loop iteration before anything happened
FreshCur == [index |-> 0, srtPath |-> FALSE, captioned |-> FALSE, probe |-> "none",
             geometry |-> FALSE, encode |-> "none", crop |-> NoCrop]

\* clip lists: at most MaxClips clips with pairwise distinct ids
ClipLists ==
    UNION { { s \in [1..n -> [id : ClipIds, hasHook : BOOLEAN]] :
                \A i, j \in 1..n : i # j => s[i].id # s[j].id } : n \in 0..MaxClips }

BatchIdle ==
    /\ pc = "idle"
    /\ clips = <<>>
    /\ hasTranscript = FALSE
    /\ ffmpeg = "unknown"
    /\ idx = 0
    /\ phase = <<>>
    /\ shape = <<>>
    /\ cur = FreshCur
    /\ results = <<>>
    /\ thrown = Undefined
    /\ srtFiles = {}
    /\ outFiles = [id \in ClipIds |-> "missing"]
    /\ pauses = {}

HookIdle ==
    /\ hookPc = "idle"
    /\ hookArgs = [srtPath |-> FALSE, focusX |-> NoFocus]
    /\ hookCrop = NoCrop
    /\ hookTemp = FALSE
    /\ mainTemp = FALSE
    /\ hookOutput = FALSE
    /\ hookWritten = FALSE
    /\ hookUnlink = [hook |-> "none", main |-> "none"]
    /\ hookError = Undefined

\* the response object before anything was answered
NoResponse == [status |-> 0, success |-> FALSE, processed |-> 0, failed |-> 0,
               results |-> <<>>, error |-> Undefined]

NoProject == [exists |-> FALSE, clips |-> <<>>, clipMetadata |-> {}]

RouteIdle ==
    /\ reqPc = "idle"
    /\ project = NoProject
    /\ addPos = 0
    /\ addCalls = <<>>
    /\ response = NoResponse

CropIdle ==
    /\ cropPc = "idle"
    /\ cropIn = [width |-> 0, height |-> 0, focusX |-> NoFocus]
    /\ cropOut = NoCrop
    /\ cropOutHook = NoCrop

ManualIdle ==
    /\ manPc = "idle"
    /\ manIdx = 0
    /\ sections = <<>>
    /\ manualClips = <<>>

AnalyzeIdle ==
    /\ anPc = "idle"
    /\ videoDuration = 0
    /\ recs = <<>>
    /\ recommendations = <<>>

TimeIdle ==
    /\ timePc = "idle"
    /\ timeIn = 0
    /\ timeStr = <<>>
    /\ timeOut = [nan |-> FALSE, v |-> 0]

PureIdle == CropIdle /\ ManualIdle /\ AnalyzeIdle /\ TimeIdle

\* a caption timestamp not yet written
NoStamp == [hours |-> 0, minutes |-> 0, secs |-> 0, ms |-> 0, text |-> <<>>]

SrtIdle ==
    /\ srtPc = "idle"
    /\ srtIn = [segments |-> <<>>, startOffset |-> 0, endTime |-> 0]
    /\ srtCues = <<>>

StampIdle ==
    /\ stampPc = "idle"
    /\ stampIn = 0
    /\ stampOut = NoStamp

NameIdle ==
    /\ namePc = "idle"
    /\ nameIn = <<>>
    /\ namePaths = <<>>

StoreIdle ==
    /\ store = <<>>
    /\ cpc = <<>>
    /\ op = <<>>
    /\ local = <<>>
    /\ callsLeft = 0
    /\ nextId = 0
    /\ log = <<>>

RateIdle ==
    /\ now = 0
    /\ lastRequestTime = 0
    /\ rpc = <<>>
    /\ wakeAt = <<>>
    /\ requestsLeft = 0
    /\ starts = <<>>

LateIdle == SrtIdle /\ StampIdle /\ NameIdle /\ StoreIdle /\ RateIdle

Init == BatchIdle /\ HookIdle /\ RouteIdle /\ PureIdle /\ LateIdle

(* ------------------- processAllClips (batch coordinator) --------------- *)

\* the call: processAllClips(videoPath, clips, transcript); checkFFmpeg is
\* started and awaited
processAllClips ==
    /\ pc = "idle"
    /\ \E cs \in ClipLists, t \in BOOLEAN :
          /\ clips' = cs
          /\ hasTranscript' = t
          /\ phase' = [i \in 1..Len(cs) |-> "Queued"]
          /\ shape' = [i \in 1..Len(cs) |-> "none"]
    /\ pc' = "checkFFmpeg"
    /\ UNCHANGED <<ffmpeg, idx, cur, results, thrown, srtFiles, outFiles>>
    /\ UNCHANGED pauses
    /\ UNCHANGED hookVars
    /\ UNCHANGED otherVars

\* variant: the availability check is ignored
AfterCheckFFmpegIgnored(available) == "ensureDir"

\* if (!ffmpegAvailable) throw new Error(...)
AfterCheckFFmpeg(available) == IF available THEN "ensureDir" ELSE "thrown"

\* checkFFmpeg resolved: `ffmpeg -version` ran or failed
checkFFmpeg ==
    /\ pc = "checkFFmpeg"
    /\ \E available \in BOOLEAN :
          /\ ffmpeg' = IF available THEN "yes" ELSE "no"
          /\ pc' = AfterCheckFFmpeg(available)
          /\ thrown' = IF pc' = "thrown" THEN ErrFFmpegMissing ELSE thrown
    /\ UNCHANGED <<clips, hasTranscript, idx, phase, shape, cur, results,
                   srtFiles, outFiles>>
    /\ UNCHANGED pauses
    /\ UNCHANGED hookVars
    /\ UNCHANGED otherVars

\* ensureDir(TEMP_DIR); ensureDir(OUTPUT_DIR): a mkdir that fails rejects
\* the whole call; otherwise results = [] and the loop is entered
ensureDir ==
    /\ pc = "ensureDir"
    /\ \E ok \in BOOLEAN :
          IF ok
          THEN /\ pc' = "loop"
               /\ idx' = 1
               /\ results' = <<>>
               /\ thrown' = thrown
          ELSE /\ pc' = "thrown"
               /\ thrown' = ErrMkdir
               /\ UNCHANGED <<idx, results>>
    /\ UNCHANGED <<clips, hasTranscript, ffmpeg, phase, shape, cur,
                   srtFiles, outFiles>>
    /\ UNCHANGED pauses
    /\ UNCHANGED hookVars
    /\ UNCHANGED otherVars

\* variant: clips.map(...) with Promise.all, every clip is taken up at once
TurnAll(i) == TRUE

\* for (const clip of clips): clip i is taken up when the loop stands at i
Turn(i) == idx = i

\* variant: clips with hook times are sent to processClipWithHook
RenderShapeByHook(clip) == IF clip.hasHook THEN "hook" ELSE "single"

\* the renderer the loop body calls for a clip: always processClipComplete
\* ("Hook timestamps are stored as metadata only, not used for cutting")
RenderShape(clip) == "single"

\* results.push({ clipId: clip.id, outputPath })
SuccessResult(clip) ==
    [clipId |-> clip.id, outputPath |-> OutputPathOf(clip), error |-> Undefined]

\* variant: the error result keeps the output path
ErrorResultWithPath(clip, message) ==
    [clipId |-> clip.id, outputPath |-> OutputPathOf(clip), error |-> message]

\* results.push({ clipId: clip.id, outputPath: '', error: error.message })
ErrorResult(clip, message) ==
    [clipId |-> clip.id, outputPath |-> EmptyPath, error |-> message]

\* variant: Array.prototype.unshift
Unshift(array, item) == <<item>> \o array

\* Array.prototype.push
Push(array, item) == Append(array, item)

\* variant: the catch block leaves the loop (break)
AfterCatchBreak(i) == "returned"

\* where the call stands once the catch block of clip i is through: the
\* error is swallowed and the loop goes on
AfterCatch(i) == "loop"

\* clips.indexOf(clip) < clips.length - 1
NotLast(i) == i < Len(clips)

\* the catch block of the loop body for clip i
Catch(i, message) ==
    /\ results' = Push(results, ErrorResult(clips[i], message))
    /\ phase' = [phase EXCEPT ![i] = "Failed"]
    /\ pc' = AfterCatch(i)
    /\ idx' = i + 1
    /\ thrown' = IF pc' = "thrown" THEN message ELSE thrown

\* the tail of the try block for clip i: the result is recorded, and the
\* 1 second timer is started unless clip i is the last one
Record(i) ==
    /\ results' = Push(results, SuccessResult(clips[i]))
    /\ phase' = [phase EXCEPT ![i] = "Done"]
    /\ IF NotLast(i)
       THEN /\ pc' = "delay"
            /\ idx' = idx
       ELSE /\ pc' = "loop"
            /\ idx' = i + 1
    /\ thrown' = thrown

\* variant: the caption file is written whether or not the transcript has
\* segments
BeginClipAlwaysCaption(i) ==
    /\ pc = "loop"
    /\ i \in 1..Len(clips)
    /\ Turn(i)
    /\ phase[i] = "Queued"
    /\ cur' = [FreshCur EXCEPT !.index = i, !.srtPath = TRUE]
    /\ phase' = [phase EXCEPT ![i] = "Captioning"]
    /\ shape' = shape
    /\ UNCHANGED <<pc, clips, hasTranscript, ffmpeg, idx, results, thrown,
                   srtFiles, outFiles>>
    /\ UNCHANGED pauses
    /\ UNCHANGED hookVars
    /\ UNCHANGED otherVars

\* head of the loop body for clip i, up to its first await: generateSrt
\* when the transcript has segments, else getVideoDimensions inside
\* processClipComplete
BeginClip(i) ==
    /\ pc = "loop"
    /\ i \in 1..Len(clips)
    /\ Turn(i)
    /\ phase[i] = "Queued"
    /\ IF hasTranscript
       THEN /\ cur' = [FreshCur EXCEPT !.index = i, !.srtPath = TRUE]
            /\ phase' = [phase EXCEPT ![i] = "Captioning"]
            /\ shape' = shape
       ELSE /\ cur' = [FreshCur EXCEPT !.index = i]
            /\ phase' = [phase EXCEPT ![i] = "Probing"]
            /\ shape' = [shape EXCEPT ![i] = RenderShape(clips[i])]
    /\ UNCHANGED <<pc, clips, hasTranscript, ffmpeg, idx, results, thrown,
                   srtFiles, outFiles>>
    /\ UNCHANGED pauses
    /\ UNCHANGED hookVars
    /\ UNCHANGED otherVars

\* generateSrt settled: fs.writeFile wrote temp/<id>.srt, or rejected
generateSrt(i) ==
    /\ pc = "loop"
    /\ i \in 1..Len(clips)
    /\ phase[i] = "Captioning"
    /\ \E ok \in BOOLEAN :
          IF ok
          THEN /\ srtFiles' = srtFiles \cup {clips[i].id}
               /\ cur' = [cur EXCEPT !.captioned = TRUE]
               /\ phase' = [phase EXCEPT ![i] = "Probing"]
               /\ shape' = [shape EXCEPT ![i] = RenderShape(clips[i])]
               /\ UNCHANGED <<pc, idx, results, thrown>>
          ELSE /\ Catch(i, ErrWriteFile)
               /\ UNCHANGED <<srtFiles, cur, shape>>
    /\ UNCHANGED <<clips, hasTranscript, ffmpeg, outFiles>>
    /\ UNCHANGED pauses
    /\ UNCHANGED hookVars
    /\ UNCHANGED otherVars

\* getVideoDimensions settled inside processClipComplete: ffprobe failed
\* (the await throws), or its stdout is split and mapped through Number,
\* the crop is computed from whatever came out and the encode is started
getVideoDimensions(i) ==
    /\ pc = "loop"
    /\ i \in 1..Len(clips)
    /\ phase[i] = "Probing"
    /\ shape[i] = "single"
    /\ \/ /\ Catch(i, ErrProbe)
          /\ cur' = [cur EXCEPT !.probe = "error"]
       \/ \E dims \in ProbeOutputs :
             /\ cur' = [cur EXCEPT
                           !.probe = IF dims.nan THEN "unparsable" ELSE "ok",
                           !.geometry = TRUE,
                           !.crop = computeCrop(dims, CenterFocus),
                           !.encode = "running"]
             /\ phase' = [phase EXCEPT ![i] = "Encoding"]
             /\ UNCHANGED <<pc, idx, results, thrown>>
    /\ UNCHANGED <<clips, hasTranscript, ffmpeg, shape, srtFiles, outFiles>>
    /\ UNCHANGED pauses
    /\ UNCHANGED hookVars
    /\ UNCHANGED otherVars

\* the ffmpeg encode of processClipComplete settled.  Exit code 0 resolves
\* the await whatever is at outputPath; nothing inspects the file.
processClipComplete(i) ==
    /\ pc = "loop"
    /\ i \in 1..Len(clips)
    /\ phase[i] = "Encoding"
    /\ \/ \E left \in {"missing", "empty"} :
             /\ outFiles' = [outFiles EXCEPT ![clips[i].id] = left]
             /\ cur' = [cur EXCEPT !.encode = "failed"]
             /\ Catch(i, ErrEncode)
       \/ \E written \in {"missing", "empty", "ok"} :
             /\ outFiles' = [outFiles EXCEPT ![clips[i].id] = written]
             /\ cur' = [cur EXCEPT !.encode = "ok"]
             /\ IF cur.srtPath
                THEN /\ phase' = [phase EXCEPT ![i] = "Finalizing"]
                     /\ UNCHANGED <<pc, idx, results, thrown>>
                ELSE Record(i)
    /\ UNCHANGED <<clips, hasTranscript, ffmpeg, shape, srtFiles>>
    /\ UNCHANGED pauses
    /\ UNCHANGED hookVars
    /\ UNCHANGED otherVars

\* fs.unlink(srtPath) settled; a rejection is swallowed
unlinkSrt(i) ==
    /\ pc = "loop"
    /\ i \in 1..Len(clips)
    /\ phase[i] = "Finalizing"
    /\ \E ok \in BOOLEAN :
          srtFiles' = IF ok THEN srtFiles \ {clips[i].id} ELSE srtFiles
    /\ Record(i)
    /\ UNCHANGED <<clips, hasTranscript, ffmpeg, shape, cur, outFiles>>
    /\ UNCHANGED pauses
    /\ UNCHANGED hookVars
    /\ UNCHANGED otherVars

\* variant: the timer fires but the loop stays at the same clip
DelayStay ==
    /\ pc = "delay"
    /\ pc' = "loop"
    /\ idx' = idx
    /\ pauses' = pauses \cup {idx}
    /\ UNCHANGED <<clips, hasTranscript, ffmpeg, phase, shape, cur, results,
                   thrown, srtFiles, outFiles>>
    /\ UNCHANGED hookVars
    /\ UNCHANGED otherVars

\* the 1 second timer between two clips fired
Delay ==
    /\ pc = "delay"
    /\ pc' = "loop"
    /\ idx' = idx + 1
    /\ pauses' = pauses \cup {idx}
    /\ UNCHANGED <<clips, hasTranscript, ffmpeg, phase, shape, cur, results,
                   thrown, srtFiles, outFiles>>
    /\ UNCHANGED hookVars
    /\ UNCHANGED otherVars

\* the loop is exhausted: return results
Return ==
    /\ pc = "loop"
    /\ idx > Len(clips)
    /\ pc' = "returned"
    /\ UNCHANGED <<clips, hasTranscript, ffmpeg, idx, phase, shape, cur,
                   results, thrown, srtFiles, outFiles>>
    /\ UNCHANGED pauses
    /\ UNCHANGED hookVars
    /\ UNCHANGED otherVars

Next ==
    \/ processAllClips
    \/ checkFFmpeg
    \/ ensureDir
    \/ \E i \in 1..MaxClips : BeginClip(i)
    \/ \E i \in 1..MaxClips : generateSrt(i)
    \/ \E i \in 1..MaxClips : getVideoDimensions(i)
    \/ \E i \in 1..MaxClips : processClipComplete(i)
    \/ \E i \in 1..MaxClips : unlinkSrt(i)
    \/ Delay
    \/ Return

Spec == Init /\ [][Next]_vars

\* every awaited step (tool check, mkdir, file write, probe, encode, unlink,
\* timer) eventually settles, and the synchronous steps between them run
Fairness ==
    /\ WF_vars(processAllClips)
    /\ WF_vars(checkFFmpeg)
    /\ WF_vars(ensureDir)
    /\ \A i \in 1..MaxClips :
          /\ WF_vars(BeginClip(i))
          /\ WF_vars(generateSrt(i))
          /\ WF_vars(getVideoDimensions(i))
          /\ WF_vars(processClipComplete(i))
          /\ WF_vars(unlinkSrt(i))
    /\ WF_vars(Delay)
    /\ WF_vars(Return)

SpecLive == Init /\ [][Next]_vars /\ Fairness

(* --------------- processClipWithHook (hook + main renderer) ------------ *)

\* processClipWithHook settles with a rejection
HookThrow(message) ==
    /\ hookPc' = "thrown"
    /\ hookError' = message

\* the call: processClipWithHook(inputPath, outputPath, hookStart, hookEnd,
\* mainStart, mainEnd, srtPath?, focusX?); getVideoDimensions is awaited
processClipWithHook ==
    /\ hookPc = "idle"
    /\ \E srt \in BOOLEAN, f \in {NoFocus} \cup (0..FocusDen) :
          hookArgs' = [srtPath |-> srt, focusX |-> f]
    /\ hookPc' = "getVideoDimensions"
    /\ UNCHANGED <<hookCrop, hookTemp, mainTemp, hookOutput, hookWritten,
                   hookUnlink, hookError>>
    /\ UNCHANGED batchVars
    /\ UNCHANGED otherVars

\* getVideoDimensions settled: the crop is computed and the hook encode
\* is started, or the rejection leaves the function
hookGetVideoDimensions ==
    /\ hookPc = "getVideoDimensions"
    /\ \/ /\ HookThrow(ErrProbe)
          /\ hookCrop' = hookCrop
       \/ \E dims \in ProbeOutputs :
             /\ hookCrop' = hookComputeCrop(dims, hookArgs.focusX)
             /\ hookPc' = "hookEncode"
             /\ hookError' = hookError
    /\ UNCHANGED <<hookArgs, hookTemp, mainTemp, hookOutput, hookWritten,
                   hookUnlink>>
    /\ UNCHANGED batchVars
    /\ UNCHANGED otherVars

\* execAsync(hookCommand) settled; a failed ffmpeg may leave a partial file
hookEncode ==
    /\ hookPc = "hookEncode"
    /\ \/ /\ HookThrow(ErrEncode)
          /\ \E partial \in BOOLEAN : hookTemp' = partial
       \/ /\ hookTemp' = TRUE
          /\ hookPc' = "mainEncode"
          /\ hookError' = hookError
    /\ UNCHANGED <<hookArgs, hookCrop, mainTemp, hookOutput, hookWritten,
                   hookUnlink>>
    /\ UNCHANGED batchVars
    /\ UNCHANGED otherVars

\* execAsync(mainCommand) settled; on success concatenateWithFadeToBlack
\* is entered with the two paths and awaits getVideoDuration(firstVideo)
mainEncode ==
    /\ hookPc = "mainEncode"
    /\ \/ /\ HookThrow(ErrEncode)
          /\ \E partial \in BOOLEAN : mainTemp' = partial
          /\ hookWritten' = hookWritten
       \/ /\ mainTemp' = TRUE
          /\ hookWritten' = TRUE
          /\ hookPc' = "getVideoDuration"
          /\ hookError' = hookError
    /\ UNCHANGED <<hookArgs, hookCrop, hookTemp, hookOutput, hookUnlink>>
    /\ UNCHANGED batchVars
    /\ UNCHANGED otherVars

\* getVideoDuration(firstVideo) settled inside concatenateWithFadeToBlack
getVideoDuration ==
    /\ hookPc = "getVideoDuration"
    /\ \/ HookThrow(ErrDuration)
       \/ /\ hookPc' = "concat"
          /\ hookError' = hookError
    /\ UNCHANGED <<hookArgs, hookCrop, hookTemp, mainTemp, hookOutput,
                   hookWritten, hookUnlink>>
    /\ UNCHANGED batchVars
    /\ UNCHANGED otherVars

\* the xfade ffmpeg call of concatenateWithFadeToBlack settled; its
\* rejection passes through processClipWithHook, which has no try around it
concatenateWithFadeToBlack ==
    /\ hookPc = "concat"
    /\ \/ /\ HookThrow(ErrConcat)
          /\ \E partial \in BOOLEAN : hookOutput' = partial
       \/ /\ hookOutput' = TRUE
          /\ hookPc' = "unlinkHook"
          /\ hookError' = hookError
    /\ UNCHANGED <<hookArgs, hookCrop, hookTemp, mainTemp, hookWritten,
                   hookUnlink>>
    /\ UNCHANGED batchVars
    /\ UNCHANGED otherVars

\* fs.unlink(hookPath) settled: both unlinks share one try block, so a
\* rejection here goes to the empty catch and skips fs.unlink(mainPath)
unlinkHook ==
    /\ hookPc = "unlinkHook"
    /\ \/ /\ hookTemp' = FALSE
          /\ hookUnlink' = [hookUnlink EXCEPT !.hook = "ok"]
          /\ hookPc' = "unlinkMain"
       \/ /\ hookTemp' = hookTemp
          /\ hookUnlink' = [hookUnlink EXCEPT !.hook = "failed"]
          /\ hookPc' = "returned"
    /\ UNCHANGED <<hookArgs, hookCrop, mainTemp, hookOutput, hookWritten,
                   hookError>>
    /\ UNCHANGED batchVars
    /\ UNCHANGED otherVars

\* fs.unlink(mainPath) settled; a rejection is swallowed
unlinkMain ==
    /\ hookPc = "unlinkMain"
    /\ \/ /\ mainTemp' = FALSE
          /\ hookUnlink' = [hookUnlink EXCEPT !.main = "ok"]
       \/ /\ mainTemp' = mainTemp
          /\ hookUnlink' = [hookUnlink EXCEPT !.main = "failed"]
    /\ hookPc' = "returned"
    /\ UNCHANGED <<hookArgs, hookCrop, hookTemp, hookOutput, hookWritten,
                   hookError>>
    /\ UNCHANGED batchVars
    /\ UNCHANGED otherVars

NextHook ==
    \/ processClipWithHook
    \/ hookGetVideoDimensions
    \/ hookEncode
    \/ mainEncode
    \/ getVideoDuration
    \/ concatenateWithFadeToBlack
    \/ unlinkHook
    \/ unlinkMain

SpecHook == Init /\ [][NextHook]_vars

(* ---------------- POST /api/process (app/api/process/route.ts) --------- *)

ErrNoSource == "Either YouTube URL or video path is required"

ErrNoClips == "Clips are required"

ErrVideoNotFound == "Uploaded video file not found"

ErrDownload == "download failed"

ErrProjectNotFound == "Project with ID not found"

ErrSaveProjects == "writeFile projects.json failed"

\* a file name left in the project by an earlier request
OlderFile == 0

\* path.basename(result.outputPath)
FileName(path) == path.file

\* what processAllClips(finalVideoPath, clips, transcript) does on entry,
\* up to the await of checkFFmpeg
EnterProcessAllClips(cs, t) ==
    /\ clips' = cs
    /\ hasTranscript' = t
    /\ phase' = [i \in 1..Len(cs) |-> "Queued"]
    /\ shape' = [i \in 1..Len(cs) |-> "none"]
    /\ pc' = "checkFFmpeg"
    /\ UNCHANGED <<ffmpeg, idx, cur, results, thrown, srtFiles, outFiles,
                   pauses>>

\* NextResponse.json({ success: false, error }, { status })
ErrorResponse(status, message) ==
    [NoResponse EXCEPT !.status = status, !.error = message]

\* results.filter(r => !r.error)
Successes(rs) == SelectSeq(rs, LAMBDA r : r.error = Undefined)

\* results.filter(r => r.error)
Errors(rs) == SelectSeq(rs, LAMBDA r : r.error # Undefined)

\* the response at the end of the try block
SuccessResponse(rs) ==
    [status    |-> 200,
     success   |-> TRUE,
     processed |-> Len(Successes(rs)),
     failed    |-> Len(Errors(rs)),
     results   |-> [i \in 1..Len(rs) |->
                      [clipId      |-> rs[i].clipId,
                       success     |-> rs[i].error = Undefined,
                       outputPath  |-> rs[i].outputPath,
                       downloadUrl |-> rs[i].outputPath # EmptyPath,
                       error       |-> rs[i].error]],
     error     |-> Undefined]

\* if (clipFilename && currentProjectId && clip)
ShouldAdd(r) ==
    /\ r.outputPath # EmptyPath
    /\ \E i \in 1..Len(clips) : clips[i].id = r.clipId

\* the first success at or after position from for which addClipToProject
\* is called, 0 when there is none
NextAddPos(from) ==
    LET succ == Successes(results)
        S == {k \in from..Len(succ) : ShouldAdd(succ[k])}
    IN IF S = {} THEN 0 ELSE CHOOSE k \in S : \A l \in S : k <= l

\* variant: the project's clip list is overwritten with the new name
AddClipOverwrite(list, name) == <<name>>

\* if (!project.clips.includes(clipFilename)) project.clips.push(clipFilename)
AddClip(list, name) ==
    IF \E k \in 1..Len(list) : list[k] = name THEN list ELSE Append(list, name)

\* the loop over successes moves to position pos: addClipToProject is called
\* for that success, or the loop is over and the response is sent
AddOrRespond(pos) ==
    IF pos = 0
    THEN /\ reqPc' = "responded"
         /\ response' = SuccessResponse(results)
         /\ UNCHANGED <<addPos, addCalls>>
    ELSE /\ reqPc' = "adding"
         /\ addPos' = pos
         /\ addCalls' = Append(addCalls, FileName(Successes(results)[pos].outputPath))
         /\ response' = response

\* the handler up to its call of processAllClips: body validation, the
\* source video (fs.access, or getVideoInfo and downloadVideo), and the
\* project: the projectId of the body taken as it is, else the project of
\* the video looked up or created
POST ==
    /\ reqPc = "idle"
    /\ pc = "idle"
    /\ \E hasSource \in BOOLEAN, cs \in ClipLists, t \in BOOLEAN :
          IF ~hasSource \/ Len(cs) = 0
          THEN /\ reqPc' = "responded"
               /\ response' = ErrorResponse(400, IF ~hasSource THEN ErrNoSource
                                                              ELSE ErrNoClips)
               /\ UNCHANGED <<project, batchVars>>
          ELSE \/ /\ reqPc' = "responded"
                  /\ \E r \in {ErrorResponse(400, ErrVideoNotFound),
                               ErrorResponse(500, ErrDownload),
                               ErrorResponse(500, ErrSaveProjects)} :
                        response' = r
                  /\ UNCHANGED <<project, batchVars>>
               \/ /\ \E exists \in BOOLEAN, prior \in {<<>>, <<OlderFile>>} :
                        /\ ~exists => prior = <<>>
                        /\ project' = [exists |-> exists, clips |-> prior,
                                       clipMetadata |-> {prior[k] : k \in 1..Len(prior)}]
                  /\ EnterProcessAllClips(cs, t)
                  /\ reqPc' = "processing"
                  /\ response' = response
    /\ UNCHANGED <<addPos, addCalls>>
    /\ UNCHANGED hookVars
    /\ UNCHANGED pureVars

\* await processAllClips(...) settled: a rejection goes to the handler's
\* catch (status 500); results start the loop over the successes
AfterProcessAllClips ==
    /\ reqPc = "processing"
    /\ \/ /\ pc = "thrown"
          /\ reqPc' = "responded"
          /\ response' = ErrorResponse(500, thrown)
          /\ UNCHANGED <<addPos, addCalls>>
       \/ /\ pc = "returned"
          /\ AddOrRespond(NextAddPos(1))
    /\ UNCHANGED project
    /\ UNCHANGED batchVars
    /\ UNCHANGED hookVars
    /\ UNCHANGED pureVars

\* await addClipToProject(currentProjectId, clipFilename, metadata) settled:
\* getProjects answers [] when projects.json cannot be read, a project that
\* is not found throws, saveProjects may reject; each rejection goes to the
\* handler's catch (status 500)
addClipToProject ==
    /\ reqPc = "adding"
    /\ LET name == FileName(Successes(results)[addPos].outputPath)
       IN \/ /\ project.exists
             /\ project' = [project EXCEPT
                               !.clips = AddClip(project.clips, name),
                               !.clipMetadata = @ \cup {name}]
             /\ AddOrRespond(NextAddPos(addPos + 1))
          \/ /\ project.exists
             /\ reqPc' = "responded"
             /\ response' = ErrorResponse(500, ErrSaveProjects)
             /\ UNCHANGED <<project, addPos, addCalls>>
          \/ /\ reqPc' = "responded"
             /\ response' = ErrorResponse(500, ErrProjectNotFound)
             /\ UNCHANGED <<project, addPos, addCalls>>
    /\ UNCHANGED batchVars
    /\ UNCHANGED hookVars
    /\ UNCHANGED pureVars

NextRoute ==
    \/ POST
    \/ checkFFmpeg
    \/ ensureDir
    \/ \E i \in 1..MaxClips : BeginClip(i)
    \/ \E i \in 1..MaxClips : generateSrt(i)
    \/ \E i \in 1..MaxClips : getVideoDimensions(i)
    \/ \E i \in 1..MaxClips : processClipComplete(i)
    \/ \E i \in 1..MaxClips : unlinkSrt(i)
    \/ Delay
    \/ Return
    \/ AfterProcessAllClips
    \/ addClipToProject

SpecRoute == Init /\ [][NextRoute]_vars

(* ------------- crop rectangle (lib/utils/ffmpeg.ts crop blocks) --------- *)

MaxDim == 12

\* frame sizes ffprobe reports in practice, beside the small ones
SampleDims == {720, 1080, 1279, 1280, 1920, 3840}

Dims == (1..MaxDim) \cup SampleDims

\* focusX in [0, 1] in steps of 1 / FocusDen, or not given
FocusValues == (0..FocusDen) \cup {NoFocus}

InitCrop ==
    /\ BatchIdle /\ HookIdle /\ RouteIdle /\ LateIdle
    /\ ManualIdle /\ AnalyzeIdle /\ TimeIdle
    /\ cropPc = "input"
    /\ \E w \in Dims, h \in Dims, f \in FocusValues :
          cropIn = [width |-> w, height |-> h, focusX |-> f]
    /\ cropOut = NoCrop
    /\ cropOutHook = NoCrop

\* the crop block of processClipComplete runs on the probed size
cropComplete ==
    /\ cropPc \in {"input", "hookDone"}
    /\ cropOut' = computeCrop([width |-> cropIn.width, height |-> cropIn.height,
                               nan |-> FALSE], cropIn.focusX)
    /\ cropPc' = IF cropPc = "input" THEN "completeDone" ELSE "computed"
    /\ UNCHANGED <<cropIn, cropOutHook>>
    /\ UNCHANGED <<batchVars, hookVars, routeVars, lateVars, manualVars, analyzeVars,
                   timeVars>>

\* the crop block of processClipWithHook runs on the probed size
cropWithHook ==
    /\ cropPc \in {"input", "completeDone"}
    /\ cropOutHook' = hookComputeCrop([width |-> cropIn.width,
                                       height |-> cropIn.height,
                                       nan |-> FALSE], cropIn.focusX)
    /\ cropPc' = IF cropPc = "input" THEN "hookDone" ELSE "computed"
    /\ UNCHANGED <<cropIn, cropOut>>
    /\ UNCHANGED <<batchVars, hookVars, routeVars, lateVars, manualVars, analyzeVars,
                   timeVars>>

NextCrop == cropComplete \/ cropWithHook

SpecCrop == InitCrop /\ [][NextCrop]_vars

(* ------------- timestamps: formatTime and parseTimestamp --------------- *)

MaxSeconds == 130

MaxTextLen == 3

\* a string is the sequence of its characters
Digits == <<"0", "1", "2", "3", "4", "5", "6", "7", "8", "9">>

IsDigit(c) == \E k \in 1..10 : Digits[k] = c

DigitVal(c) == (CHOOSE k \in 1..10 : Digits[k] = c) - 1

\* a JavaScript number: an integer, or NaN
Num(v) == [nan |-> FALSE, v |-> v]

NaN == [nan |-> TRUE, v |-> 0]

\* a * k + b on numbers, NaN when a or b is NaN
MulAdd(a, k, b) == IF a.nan \/ b.nan THEN NaN ELSE Num(a.v * k + b.v)

\* n.toString() for an integer n >= 0
RECURSIVE toString(_)
toString(n) ==
    IF n < 10 THEN <<Digits[n + 1]>>
    ELSE Append(toString(n \div 10), Digits[(n % 10) + 1])

\* s.padStart(targetLength, fill) for a one character fill
RECURSIVE padStart(_, _, _)
padStart(str, targetLength, fill) ==
    IF Len(str) >= targetLength THEN str
    ELSE padStart(<<fill>> \o str, targetLength, fill)

\* variant: the minutes are not reduced modulo the hour
formatTimeWholeMinutes(seconds) ==
    LET hrs  == seconds \div 3600
        mins == seconds \div 60
        secs == seconds % 60
    IN padStart(toString(hrs), 2, "0") \o <<":">> \o
       padStart(toString(mins), 2, "0") \o <<":">> \o
       padStart(toString(secs), 2, "0")

\* formatTime(seconds) of the process route, for integer seconds >= 0
formatTime(seconds) ==
    LET hrs  == seconds \div 3600
        mins == (seconds % 3600) \div 60
        secs == seconds % 60
    IN padStart(toString(hrs), 2, "0") \o <<":">> \o
       padStart(toString(mins), 2, "0") \o <<":">> \o
       padStart(toString(secs), 2, "0")

\* timestamp.replace(/[\[\]]/g, '')
removeBrackets(str) == SelectSeq(str, LAMBDA c : c \notin {"[", "]"})

RECURSIVE trimStart(_)
trimStart(str) ==
    IF str # <<>> /\ Head(str) = " " THEN trimStart(Tail(str)) ELSE str

RECURSIVE trimEnd(_)
trimEnd(str) ==
    IF str # <<>> /\ str[Len(str)] = " "
    THEN trimEnd(SubSeq(str, 1, Len(str) - 1)) ELSE str

trim(str) == trimEnd(trimStart(str))

\* str.split(':'): the pieces between the separators, empty ones included
RECURSIVE split(_, _)
split(str, sep) ==
    IF \A k \in 1..Len(str) : str[k] # sep THEN <<str>>
    ELSE LET k == CHOOSE j \in 1..Len(str) :
                     str[j] = sep /\ \A l \in 1..(j - 1) : str[l] # sep
         IN <<SubSeq(str, 1, k - 1)>> \o split(SubSeq(str, k + 1, Len(str)), sep)

\* the value of the leading run of decimal digits of str, read after acc
RECURSIVE leadingDigits(_, _)
leadingDigits(str, acc) ==
    IF str # <<>> /\ IsDigit(Head(str))
    THEN leadingDigits(Tail(str), 10 * acc + DigitVal(Head(str)))
    ELSE acc

\* parseInt(str, 10): leading white space is skipped, a sign is read, then
\* the longest run of digits; NaN when there is no digit there
parseInt(str) ==
    LET t    == trimStart(str)
        neg  == t # <<>> /\ Head(t) = "-"
        body == IF t # <<>> /\ Head(t) \in {"-", "+"} THEN Tail(t) ELSE t
    IN IF body = <<>> \/ ~IsDigit(Head(body)) THEN NaN
       ELSE Num((IF neg THEN 0 - 1 ELSE 1) * leadingDigits(body, 0))

parseTimestamp(timestamp) ==
    LET clean  == trim(removeBrackets(timestamp))
        pieces == split(clean, ":")
        parts  == [k \in 1..Len(pieces) |-> parseInt(pieces[k])]
    IN IF Len(parts) = 3
       THEN MulAdd(MulAdd(parts[1], 60, parts[2]), 60, parts[3])
       ELSE IF Len(parts) = 2
            THEN MulAdd(parts[1], 60, parts[2])
            ELSE Num(0)

\* seconds given to formatTime: every small value and the values around the
\* minute, the hour, ten hours, a day and a hundred hours
SampleSeconds == {3599, 3600, 3661, 35999, 36000, 86399, 86400,
                  359999, 360000, 360001, 363661}

SecondsInputs == (0..MaxSeconds) \cup SampleSeconds

TextAlphabet == {"1", "2", "a", ":", "[", "]", " ", "-"}

RECURSIVE TextsOfLen(_)
TextsOfLen(n) ==
    IF n = 0 THEN {<<>>}
    ELSE {Append(t, c) : t \in TextsOfLen(n - 1), c \in TextAlphabet}

SampleTexts == { <<"a", "b", ":", "c", "d">>,
                 <<"1", "2", "a", "b", ":", "3", "0">>,
                 <<"1", ":", "2", ":", "3", ":", "4">>,
                 <<"[", "0", "2", ":", "4", "0", "]">>,
                 <<"[", "0", "0", ":", "0", "2", ":", "4", "0", "]">>,
                 <<"1", "1", "2", "8">> }

TextInputs == UNION {TextsOfLen(n) : n \in 0..MaxTextLen} \cup SampleTexts

InitTime ==
    /\ BatchIdle /\ HookIdle /\ RouteIdle /\ LateIdle
    /\ CropIdle /\ ManualIdle /\ AnalyzeIdle
    /\ \/ /\ timePc = "seconds"
          /\ timeIn \in SecondsInputs
          /\ timeStr = <<>>
       \/ /\ timePc = "text"
          /\ timeIn = 0
          /\ timeStr \in TextInputs
    /\ timeOut = Num(0)

\* the seconds are formatted as HH:MM:SS
applyFormatTime ==
    /\ timePc = "seconds"
    /\ timeStr' = formatTime(timeIn)
    /\ timePc' = "formatted"
    /\ UNCHANGED <<timeIn, timeOut>>
    /\ UNCHANGED <<batchVars, hookVars, routeVars, lateVars, cropVars, manualVars,
                   analyzeVars>>

\* the string, formatted or given, is parsed
applyParseTimestamp ==
    /\ timePc \in {"formatted", "text"}
    /\ timeOut' = parseTimestamp(timeStr)
    /\ timePc' = IF timePc = "formatted" THEN "parsed" ELSE "parsedText"
    /\ UNCHANGED <<timeIn, timeStr>>
    /\ UNCHANGED <<batchVars, hookVars, routeVars, lateVars, cropVars, manualVars,
                   analyzeVars>>

NextTime == applyFormatTime \/ applyParseTimestamp

SpecTime == InitTime /\ [][NextTime]_vars

(* ------------- parseManualAnalysis (api/analyze/manual route) ---------- *)

MaxSections == 2

\* the value of an optional number that was not set
NoNumber == [undefined |-> TRUE]

\* a regular expression that did not match; a match is the sequence of its
\* capture groups
NoMatch == <<>>

\* variant: a > b where the function tests a >= b
GreaterOnly(a, b) == ~a.nan /\ ~b.nan /\ a.v > b.v

\* a >= b, a < b, a !== b and a - b on JavaScript numbers
GE(a, b) == ~a.nan /\ ~b.nan /\ a.v >= b.v

LT(a, b) == ~a.nan /\ ~b.nan /\ a.v < b.v

StrictNotEqual(a, b) == a.nan \/ b.nan \/ a.v # b.v

Sub(a, b) == IF a.nan \/ b.nan THEN NaN ELSE Num(a.v - b.v)

\* texts the capture group \d{1,2}:\d{2}(?::\d{2})? matches: 30 s, 60 s, 180 s
T30 == <<"0", "0", ":", "3", "0">>

T60 == <<"0", "1", ":", "0", "0">>

T180 == <<"0", "0", ":", "0", "3", ":", "0", "0">>

\* capture groups of the Timeline Full Clip / Timestamp patterns
TimelineMatches == {<<T30, T60>>, <<T30, T180>>, <<T60, T180>>,
                    <<T60, T30>>, <<T30, T30>>}

\* capture group of the Durasi patterns: \d+
DurationMatches == {<<<<"5">>>>}

\* capture groups of the Timestamp Hook patterns
HookMatches == {<<T30, T60>>, <<T60, T180>>, <<T60, T30>>}

\* a clip section by what the function's tests and patterns find in it
ClipSections ==
    { [blank |-> TRUE, timeLike |-> FALSE, timestampMatch |-> NoMatch,
       durationMatch |-> NoMatch, hookTimestampMatch |-> NoMatch],
      [blank |-> FALSE, timeLike |-> FALSE, timestampMatch |-> NoMatch,
       durationMatch |-> NoMatch, hookTimestampMatch |-> NoMatch] }
    \cup
    { [blank |-> FALSE, timeLike |-> TRUE, timestampMatch |-> tm,
       durationMatch |-> dm, hookTimestampMatch |-> hm] :
         tm \in {NoMatch} \cup TimelineMatches,
         dm \in {NoMatch} \cup DurationMatches,
         hm \in {NoMatch} \cup HookMatches }

\* variant: the hook times are kept whatever their order
HookFieldsUnchecked(section, startTime) ==
    LET m == section.hookTimestampMatch
        none == [hookTimestamp |-> NoMatch, hookStartTime |-> NoNumber,
                 hookEndTime |-> NoNumber, hookIsNotAtStart |-> FALSE]
    IN IF m = NoMatch THEN none
       ELSE LET hookStartTime == parseTimestamp(m[1])
                hookEndTime   == parseTimestamp(m[2])
            IN [hookTimestamp    |-> m,
                hookStartTime    |-> hookStartTime,
                hookEndTime      |-> hookEndTime,
                hookIsNotAtStart |-> StrictNotEqual(hookStartTime, startTime)]

\* the hook fields the section's hook pattern gives for a clip that starts
\* at startTime
HookFields(section, startTime) ==
    LET m == section.hookTimestampMatch
        none == [hookTimestamp |-> NoMatch, hookStartTime |-> NoNumber,
                 hookEndTime |-> NoNumber, hookIsNotAtStart |-> FALSE]
    IN IF m = NoMatch THEN none
       ELSE LET hookStartTime == parseTimestamp(m[1])
                hookEndTime   == parseTimestamp(m[2])
            IN IF LT(hookStartTime, hookEndTime)
               THEN [hookTimestamp    |-> m,
                     hookStartTime    |-> hookStartTime,
                     hookEndTime      |-> hookEndTime,
                     hookIsNotAtStart |-> StrictNotEqual(hookStartTime, startTime)]
               ELSE none

\* the body of the loop for the section at position i: what it pushes onto
\* clips; the clip's uuid is written as the position of its section
SectionClips(section, i) ==
    LET m == section.timestampMatch
    IN IF section.blank THEN <<>>
       ELSE IF ~section.timeLike THEN <<>>
       ELSE IF m = NoMatch THEN <<>>
       ELSE LET startTime == parseTimestamp(m[1])
                endTime   == parseTimestamp(m[2])
                duration  == IF section.durationMatch # NoMatch
                             THEN parseInt(section.durationMatch[1])
                             ELSE Sub(endTime, startTime)
                hook      == HookFields(section, startTime)
            IN IF GE(startTime, endTime) THEN <<>>
               ELSE << [id               |-> i,
                        timestamp        |-> m,
                        startTime        |-> startTime,
                        endTime          |-> endTime,
                        duration         |-> duration,
                        hookTimestamp    |-> hook.hookTimestamp,
                        hookStartTime    |-> hook.hookStartTime,
                        hookEndTime      |-> hook.hookEndTime,
                        hookIsNotAtStart |-> hook.hookIsNotAtStart] >>

InitManual ==
    /\ BatchIdle /\ HookIdle /\ RouteIdle /\ LateIdle
    /\ CropIdle /\ AnalyzeIdle /\ TimeIdle
    /\ manPc = "loop"
    /\ manIdx = 1
    /\ sections = <<>>
    /\ manualClips = <<>>

\* one pass of the loop body, for the next section of the text
parseSection ==
    /\ manPc = "loop"
    /\ manIdx <= MaxSections
    /\ \E section \in ClipSections :
          /\ sections' = Append(sections, section)
          /\ manualClips' = manualClips \o SectionClips(section, manIdx)
    /\ manIdx' = manIdx + 1
    /\ manPc' = manPc
    /\ UNCHANGED <<batchVars, hookVars, routeVars, lateVars, cropVars, analyzeVars,
                   timeVars>>

\* the text has no further section: return clips
returnClips ==
    /\ manPc = "loop"
    /\ manPc' = "returned"
    /\ UNCHANGED <<manIdx, sections, manualClips>>
    /\ UNCHANGED <<batchVars, hookVars, routeVars, lateVars, cropVars, analyzeVars,
                   timeVars>>

NextManual == parseSection \/ returnClips

SpecManual == InitManual /\ [][NextManual]_vars

(* ------------- analyzeTranscript (lib/gemini/analyzer.ts) --------------- *)

MaxCands == 2

VideoDurations == {70, 100}

\* the value of a property of a parsed JSON object: a number, or NoNumber
\* when the object has no such property
JsonNumbers(values) == {Num(v) : v \in values} \cup {NoNumber}

\* the objects of the array the model's answer parses to
Candidates ==
    [startTime : JsonNumbers({0 - 5, 0, 50}),
     endTime   : JsonNumbers({60, 80, 130}),
     viralScore : JsonNumbers({0, 5, 11})]

CandidateLists == UNION {[1..n -> Candidates] : n \in 0..MaxCands}

\* ToNumber: undefined becomes NaN
ToNumber(x) == IF x = NoNumber THEN NaN ELSE x

LE(a, b) == ~a.nan /\ ~b.nan /\ a.v <= b.v

\* Math.max and Math.min of two arguments
MathMax(a, b) ==
    LET x == ToNumber(a)
        y == ToNumber(b)
    IN IF x.nan \/ y.nan THEN NaN ELSE Num(Max(x.v, y.v))

MathMin(a, b) ==
    LET x == ToNumber(a)
        y == ToNumber(b)
    IN IF x.nan \/ y.nan THEN NaN ELSE Num(Min(x.v, y.v))

\* the predicate of .filter
Keep(rec, maxEnd) ==
    LET startTime == ToNumber(rec.startTime)
        endTime   == ToNumber(rec.endTime)
        duration  == Sub(endTime, startTime)
    IN /\ GE(startTime, Num(0))
       /\ LE(endTime, Num(maxEnd))
       /\ LT(startTime, endTime)
       /\ GE(duration, Num(15))
       /\ LE(duration, Num(60))

\* the function of .map; the uuid is written as the candidate's position
Transform(rec, i) ==
    [id         |-> i,
     startTime  |-> rec.startTime,
     endTime    |-> rec.endTime,
     duration   |-> Sub(ToNumber(rec.endTime), ToNumber(rec.startTime)),
     viralScore |-> MathMin(Num(10), MathMax(Num(1), rec.viralScore))]

\* recommendations.filter(...).map(...)
RECURSIVE Transformed(_, _, _)
Transformed(list, i, maxEnd) ==
    IF i > Len(list) THEN <<>>
    ELSE (IF Keep(list[i], maxEnd) THEN <<Transform(list[i], i)>> ELSE <<>>)
         \o Transformed(list, i + 1, maxEnd)

\* .sort((a, b) => b.viralScore - a.viralScore): a stable sort by falling
\* score; a NaN score makes the comparator inconsistent and the order is
\* then whatever the engine produces
Sorted(list) ==
    LET n == Len(list)
        perms == {p \in [1..n -> 1..n] : \A k, l \in 1..n : k # l => p[k] # p[l]}
        out(p) == [k \in 1..n |-> list[p[k]]]
        consistent == \A k \in 1..n : ~list[k].viralScore.nan
        inOrder(o) == \A k \in 1..(n - 1) :
                         \/ o[k].viralScore.v > o[k + 1].viralScore.v
                         \/ /\ o[k].viralScore.v = o[k + 1].viralScore.v
                            /\ o[k].id < o[k + 1].id
    IN {out(p) : p \in {q \in perms : consistent => inOrder(out(q))}}

InitAnalyze ==
    /\ BatchIdle /\ HookIdle /\ RouteIdle /\ LateIdle
    /\ CropIdle /\ ManualIdle /\ TimeIdle
    /\ anPc = "generateContent"
    /\ videoDuration \in VideoDurations
    /\ recs = <<>>
    /\ recommendations = <<>>

\* await rateLimitedRequest(() => model.generateContent(prompt)) settled; a
\* rejection is rethrown by the catch as 'Failed to analyze transcript'
generateContent ==
    /\ anPc = "generateContent"
    /\ \E ok \in BOOLEAN : anPc' = IF ok THEN "response" ELSE "thrown"
    /\ UNCHANGED <<videoDuration, recs, recommendations>>
    /\ UNCHANGED <<batchVars, hookVars, routeVars, lateVars, cropVars, manualVars,
                   timeVars>>

\* await result.response settled: the text has no JSON array (return []),
\* JSON.parse or the validation throws, or the parsed array is filtered,
\* transformed and sorted
validateAndTransform ==
    /\ anPc = "response"
    /\ \/ /\ anPc' = "returned"
          /\ UNCHANGED <<recs, recommendations>>
       \/ /\ anPc' = "thrown"
          /\ UNCHANGED <<recs, recommendations>>
       \/ \E list \in CandidateLists :
             /\ recs' = list
             /\ recommendations' \in Sorted(Transformed(list, 1, videoDuration))
             /\ anPc' = "returned"
    /\ UNCHANGED videoDuration
    /\ UNCHANGED <<batchVars, hookVars, routeVars, lateVars, cropVars, manualVars,
                   timeVars>>

NextAnalyze == generateContent \/ validateAndTransform

SpecAnalyze == InitAnalyze /\ [][NextAnalyze]_vars

(* ------------- caption track (lib/video/captioner.ts) ------------------- *)

MaxSegs == 2

MaxTicks == 120

\* times are counted in ticks of a tenth of a millisecond
TicksPerMs == 10

TicksPerSecond == 1000 * TicksPerMs

\* formatSrtTimestamp(seconds): the four fields and the text HH:MM:SS,mmm
formatSrtTimestamp(seconds) ==
    LET hours   == seconds \div (3600 * TicksPerSecond)
        minutes == (seconds % (3600 * TicksPerSecond)) \div (60 * TicksPerSecond)
        secs    == (seconds % (60 * TicksPerSecond)) \div TicksPerSecond
        ms      == Round(seconds % TicksPerSecond, TicksPerMs)
    IN [hours   |-> hours,
        minutes |-> minutes,
        secs    |-> secs,
        ms      |-> ms,
        text    |-> padStart(toString(hours), 2, "0") \o <<":">> \o
                    padStart(toString(minutes), 2, "0") \o <<":">> \o
                    padStart(toString(secs), 2, "0") \o <<",">> \o
                    padStart(toString(ms), 3, "0")]

\* variant: a segment that starts at endTime is taken too
InWindowClosed(seg, startOffset, endTime) ==
    seg.start >= startOffset /\ seg.start <= endTime

\* seg.start >= startOffset && seg.start < endTime
InWindow(seg, startOffset, endTime) ==
    seg.start >= startOffset /\ seg.start < endTime

\* variant: the segment's start is written as it is
adjustedStartAbsolute(seg, startOffset) == seg.start

\* const adjustedStart = segment.start - startOffset
adjustedStart(seg, startOffset) == seg.start - startOffset

\* if (srtPath) filterChain += ",subtitles=..." in processClipComplete
SubtitleFilter(srtPath) == srtPath

\* the cues the loop over filteredSegments appends to srtContent
srtContent(segments, startOffset, endTime) ==
    LET filteredSegments ==
            SelectSeq(segments, LAMBDA seg : InWindow(seg, startOffset, endTime))
    IN [k \in 1..Len(filteredSegments) |->
          LET segment == filteredSegments[k]
              from    == adjustedStart(segment, startOffset)
          IN [counter |-> k,
              start   |-> formatSrtTimestamp(from),
              end     |-> formatSrtTimestamp(from + segment.duration),
              text    |-> segment.text]]

\* start and duration of transcript segments, for the window 10 s .. 30 s:
\* before it, at its start, 1.9996 s and 19.9995 s into it, at its end
SegmentStarts == {50000, 100000, 119996, 299995, 300000}

SegmentDurations == {20004, 50000}

\* transcripts: the text of a segment is written as its position
Transcripts ==
    UNION {{[k \in 1..n |-> [start |-> f[k][1], duration |-> f[k][2], text |-> k]] :
               f \in [1..n -> SegmentStarts \X SegmentDurations]} : n \in 0..MaxSegs}

Windows == {[startOffset |-> 100000, endTime |-> 300000],
            [startOffset |-> 0, endTime |-> 100000]}

InitSrt ==
    /\ BatchIdle /\ HookIdle /\ RouteIdle /\ PureIdle /\ StampIdle /\ NameIdle /\ StoreIdle /\ RateIdle
    /\ srtPc = "called"
    /\ \E segs \in Transcripts, w \in Windows :
          srtIn = [segments |-> segs, startOffset |-> w.startOffset,
                   endTime |-> w.endTime]
    /\ srtCues = <<>>

\* generateSrt up to its await: the segments are filtered and the cues built
buildSrt ==
    /\ srtPc = "called"
    /\ srtCues' = srtContent(srtIn.segments, srtIn.startOffset, srtIn.endTime)
    /\ srtPc' = "writeFile"
    /\ srtIn' = srtIn
    /\ UNCHANGED <<batchVars, hookVars, routeVars, cropVars, manualVars,
                   analyzeVars, timeVars, stampVars, nameVars, storeVars, rateVars>>

\* await fs.writeFile(outputPath, srtContent) settled
writeSrt ==
    /\ srtPc = "writeFile"
    /\ \E ok \in BOOLEAN : srtPc' = IF ok THEN "written" ELSE "thrown"
    /\ UNCHANGED <<srtIn, srtCues>>
    /\ UNCHANGED <<batchVars, hookVars, routeVars, cropVars, manualVars,
                   analyzeVars, timeVars, stampVars, nameVars, storeVars, rateVars>>

NextSrt == buildSrt \/ writeSrt

SpecSrt == InitSrt /\ [][NextSrt]_vars

\* time values given to formatSrtTimestamp: every tick up to MaxTicks and
\* values just below a full second, minute and hour
SampleStamps == {9994, 9995, 9999, 10000, 19996, 599995, 600000,
                 35999996, 36000000, 360000000}

StampInputs == (0..MaxTicks) \cup SampleStamps

InitStamp ==
    /\ BatchIdle /\ HookIdle /\ RouteIdle /\ PureIdle /\ SrtIdle /\ NameIdle /\ StoreIdle /\ RateIdle
    /\ stampPc = "input"
    /\ stampIn \in StampInputs
    /\ stampOut = NoStamp

applyFormatSrtTimestamp ==
    /\ stampPc = "input"
    /\ stampOut' = formatSrtTimestamp(stampIn)
    /\ stampPc' = "formatted"
    /\ stampIn' = stampIn
    /\ UNCHANGED <<batchVars, hookVars, routeVars, cropVars, manualVars,
                   analyzeVars, timeVars, srtVars, nameVars, storeVars, rateVars>>

NextStamp == applyFormatSrtTimestamp

SpecStamp == InitStamp /\ [][NextStamp]_vars

(* ------------- file names of a clip (processor.ts, ffmpeg.ts) ---------- *)

\* str.substring(0, n)
substring(str, n) == SubSeq(str, 1, Min(n, Len(str)))

\* name.replace(/[^a-zA-Z0-9\s\-_]/g, ''), over the characters of the titles
\* drawn here
removeUnsafe(name) == SelectSeq(name, LAMBDA c : c \in {"T", "U", " ", "-", "_"})

\* name.replace(/\s+/g, '_')
RECURSIVE replaceSpaces(_)
replaceSpaces(name) ==
    IF name = <<>> THEN <<>>
    ELSE IF Head(name) = " "
         THEN <<"_">> \o replaceSpaces(trimStart(name))
         ELSE <<Head(name)>> \o replaceSpaces(Tail(name))

sanitizeFileName(name) == substring(replaceSpaces(removeUnsafe(name)), 100)

\* srtPath = path.join(TEMP_DIR, `${clip.id}.srt`)
SrtPathOf(clip) == [dir |-> "temp", file |-> clip.id \o <<".", "s", "r", "t">>]

\* `${sanitizedTitle}_${clip.id.substring(0, 8)}`
BaseNameOf(clip) == sanitizeFileName(clip.title) \o <<"_">> \o substring(clip.id, 8)

\* outputPath = path.join(OUTPUT_DIR, `${baseName}.mp4`)
OutputFileOf(clip) ==
    [dir |-> "output", file |-> BaseNameOf(clip) \o <<".", "m", "p", "4">>]

\* `${tempDir}/${baseName}_hook_temp.mp4`, tempDir being outputPath's directory
HookPathOf(clip) ==
    [dir |-> "output", file |-> BaseNameOf(clip) \o <<"_", "h", "o", "o", "k", "_", "t", "e", "m", "p",
                                                  ".", "m", "p", "4">>]

\* `${tempDir}/${baseName}_main_temp.mp4`
MainPathOf(clip) ==
    [dir |-> "output", file |-> BaseNameOf(clip) \o <<"_", "m", "a", "i", "n", "_", "t", "e", "m", "p",
                                                  ".", "m", "p", "4">>]

PathsOf(clip) == {SrtPathOf(clip), OutputFileOf(clip), HookPathOf(clip),
                  MainPathOf(clip)}

\* ids: one of two stems of eight characters followed by nothing or by one
\* more character, or a short id
IdStems == {<<"a", "a", "a", "a", "a", "a", "a", "a">>,
            <<"b", "0", "0", "0", "0", "0", "0", "1">>}

IdTails == {<<>>, <<"1">>, <<"2">>}

NameIds == {stem \o tail : stem \in IdStems, tail \in IdTails} \cup {<<"c">>}

NameTitles == {<<"T">>, <<"T", "!">>, <<"U">>, <<"T", " ", " ", "U">>}

NameClips == [id : NameIds, title : NameTitles]

InitNames ==
    /\ BatchIdle /\ HookIdle /\ RouteIdle /\ PureIdle /\ SrtIdle /\ StampIdle /\ StoreIdle /\ RateIdle
    /\ namePc = "input"
    /\ \E c1 \in NameClips, c2 \in NameClips : nameIn = <<c1, c2>>
    /\ namePaths = <<>>

\* the loop of processAllClips names the files of each clip
nameFiles ==
    /\ namePc = "input"
    /\ namePaths' = [k \in 1..Len(nameIn) |-> PathsOf(nameIn[k])]
    /\ namePc' = "named"
    /\ nameIn' = nameIn
    /\ UNCHANGED <<batchVars, hookVars, routeVars, cropVars, manualVars,
                   analyzeVars, timeVars, srtVars, stampVars, storeVars, rateVars>>

NextNames == nameFiles

SpecNames == InitNames /\ [][NextNames]_vars

(* ------------- project store (output/projects.json) -------------------- *)

MaxCalls == 3

NumFiles == 2

\* two requests use the store at the same time
Callers == {1, 2}

VideoIds == {1}

FileNames == 1..NumFiles

\* the id of no project
BogusId == 0

NoCall == [kind |-> "none", projectId |-> 0, videoId |-> 0, clipFilename |-> 0]

\* the calls a request makes: the get-or-create of the process route,
\* addClipToProject and deleteProject, with the ids handed out so far
StoreCalls ==
    {[kind |-> "getOrCreate", projectId |-> 0, videoId |-> v, clipFilename |-> 0] :
        v \in VideoIds}
    \cup
    {[kind |-> "addClipToProject", projectId |-> id, videoId |-> 0,
      clipFilename |-> f] : id \in {BogusId} \cup (1..nextId), f \in FileNames}
    \cup
    {[kind |-> "deleteProject", projectId |-> id, videoId |-> 0, clipFilename |-> 0] :
        id \in {BogusId} \cup (1..nextId)}

\* variant: the first project is taken whatever its id
findByIdFirst(projects, id) == IF projects = <<>> THEN 0 ELSE 1

\* projects.findIndex(p => p.id === projectId), 0 for not found
findById(projects, id) ==
    IF \E k \in 1..Len(projects) : projects[k].id = id
    THEN CHOOSE k \in 1..Len(projects) :
            /\ projects[k].id = id
            /\ \A l \in 1..(k - 1) : projects[l].id # id
    ELSE 0

\* variant: no project is ever found for a video
findByVideoIdNever(projects, videoId) == 0

\* projects.find(p => p.videoId === videoId), 0 for not found
findByVideoId(projects, videoId) ==
    IF \E k \in 1..Len(projects) : projects[k].videoId = videoId
    THEN CHOOSE k \in 1..Len(projects) :
            /\ projects[k].videoId = videoId
            /\ \A l \in 1..(k - 1) : projects[l].videoId # videoId
    ELSE 0

\* projects.splice(k, 1)
splice(projects, k) ==
    SubSeq(projects, 1, k - 1) \o SubSeq(projects, k + 1, Len(projects))

\* what getProjects returns: the file's projects, or [] when the file is
\* missing or cannot be read or parsed
ReadResults == {store, <<>>}

\* the call of caller p ends: it returned (ret is the project id it
\* returned, if any) or threw
EndCall(p, outcome, ret) ==
    /\ cpc' = [cpc EXCEPT ![p] = "idle"]
    /\ local' = [local EXCEPT ![p] = <<>>]
    /\ op' = [op EXCEPT ![p] = NoCall]
    /\ log' = Append(log, [caller |-> p, call |-> op[p], outcome |-> outcome,
                           returned |-> ret])

InitStore ==
    /\ BatchIdle /\ HookIdle /\ RouteIdle /\ PureIdle
    /\ SrtIdle /\ StampIdle /\ NameIdle /\ RateIdle
    /\ \/ /\ store = <<>>
          /\ nextId = 0
       \/ /\ store = <<[id |-> 1, videoId |-> 1, clips |-> <<>>,
                        clipMetadata |-> {}]>>
          /\ nextId = 1
    /\ cpc = [p \in Callers |-> "idle"]
    /\ op = [p \in Callers |-> NoCall]
    /\ local = [p \in Callers |-> <<>>]
    /\ callsLeft = MaxCalls
    /\ log = <<>>

\* a request starts a store call and waits for its first read
startCall(p) ==
    /\ cpc[p] = "idle"
    /\ callsLeft > 0
    /\ \E c \in StoreCalls :
          /\ op' = [op EXCEPT ![p] = c]
          /\ cpc' = [cpc EXCEPT ![p] = IF c.kind = "getOrCreate"
                                       THEN "getProjectByVideoId"
                                       ELSE "getProjects"]
    /\ callsLeft' = callsLeft - 1
    /\ UNCHANGED <<store, local, nextId, log>>
    /\ UNCHANGED <<batchVars, hookVars, routeVars, cropVars, manualVars,
                   analyzeVars, timeVars, srtVars, stampVars, nameVars, rateVars>>

\* the read of getProjectByVideoId settled: the route takes the project
\* found, or calls createProject
getProjectByVideoId(p) ==
    /\ cpc[p] = "getProjectByVideoId"
    /\ \E projects \in ReadResults :
          LET k == findByVideoId(projects, op[p].videoId)
          IN IF k # 0
             THEN EndCall(p, "ok", projects[k].id)
             ELSE /\ cpc' = [cpc EXCEPT ![p] = "getProjects"]
                  /\ UNCHANGED <<op, local, log>>
    /\ UNCHANGED <<store, callsLeft, nextId>>
    /\ UNCHANGED <<batchVars, hookVars, routeVars, cropVars, manualVars,
                   analyzeVars, timeVars, srtVars, stampVars, nameVars, rateVars>>

\* createProject after its read
createProject(p, projects) ==
    LET k == findByVideoId(projects, op[p].videoId)
    IN IF k # 0
       THEN /\ EndCall(p, "ok", projects[k].id)
            /\ nextId' = nextId
       ELSE /\ nextId' = nextId + 1
            /\ local' = [local EXCEPT ![p] =
                            Append(projects, [id |-> nextId + 1,
                                              videoId |-> op[p].videoId,
                                              clips |-> <<>>,
                                              clipMetadata |-> {}])]
            /\ cpc' = [cpc EXCEPT ![p] = "saveProjects"]
            /\ UNCHANGED <<op, log>>

\* addClipToProject after its read
addToProject(p, projects) ==
    LET k == findById(projects, op[p].projectId)
    IN /\ IF k = 0
          THEN EndCall(p, "notFound", 0)
          ELSE /\ local' = [local EXCEPT ![p] =
                               [projects EXCEPT
                                   ![k].clips = AddClip(@, op[p].clipFilename),
                                   ![k].clipMetadata = @ \cup {op[p].clipFilename}]]
               /\ cpc' = [cpc EXCEPT ![p] = "saveProjects"]
               /\ UNCHANGED <<op, log>>
       /\ nextId' = nextId

\* deleteProject after its read
deleteProject(p, projects) ==
    LET k == findById(projects, op[p].projectId)
    IN /\ IF k = 0
          THEN EndCall(p, "notFound", 0)
          ELSE /\ local' = [local EXCEPT ![p] = splice(projects, k)]
               /\ cpc' = [cpc EXCEPT ![p] = "saveProjects"]
               /\ UNCHANGED <<op, log>>
       /\ nextId' = nextId

\* await getProjects() settled in createProject, addClipToProject or
\* deleteProject; the function runs on to its saveProjects, return or throw
getProjects(p) ==
    /\ cpc[p] = "getProjects"
    /\ \E projects \in ReadResults :
          IF op[p].kind = "getOrCreate" THEN createProject(p, projects)
          ELSE IF op[p].kind = "addClipToProject" THEN addToProject(p, projects)
          ELSE deleteProject(p, projects)
    /\ UNCHANGED <<store, callsLeft>>
    /\ UNCHANGED <<batchVars, hookVars, routeVars, cropVars, manualVars,
                   analyzeVars, timeVars, srtVars, stampVars, nameVars, rateVars>>

\* await saveProjects(projects) settled: the file now holds the caller's
\* array, or the write was rejected
saveProjects(p) ==
    /\ cpc[p] = "saveProjects"
    /\ \/ /\ store' = local[p]
          /\ EndCall(p, "ok", IF op[p].kind = "getOrCreate"
                              THEN local[p][Len(local[p])].id ELSE 0)
       \/ /\ store' = store
          /\ EndCall(p, "saveFailed", 0)
    /\ UNCHANGED <<callsLeft, nextId>>
    /\ UNCHANGED <<batchVars, hookVars, routeVars, cropVars, manualVars,
                   analyzeVars, timeVars, srtVars, stampVars, nameVars, rateVars>>

NextStore ==
    \E p \in Callers :
       \/ startCall(p)
       \/ getProjectByVideoId(p)
       \/ getProjects(p)
       \/ saveProjects(p)

SpecStore == InitStore /\ [][NextStore]_vars

(* ------------- rateLimitedRequest (lib/gemini helper) ------------------- *)

MaxElapsed == 3000

MaxRequests == 3

MIN_REQUEST_INTERVAL == 1000

\* the clock is observed in steps of 250 ms, from a time long after 0
ClockStep == 250

StartClock == 5000

InitRate ==
    /\ BatchIdle /\ HookIdle /\ RouteIdle /\ PureIdle
    /\ SrtIdle /\ StampIdle /\ NameIdle /\ StoreIdle
    /\ now = StartClock
    /\ lastRequestTime = 0
    /\ rpc = [p \in Callers |-> "idle"]
    /\ wakeAt = [p \in Callers |-> 0]
    /\ requestsLeft = MaxRequests
    /\ starts = <<>>

\* lastRequestTime = Date.now(); return requestFn()
startRequest(p) ==
    /\ lastRequestTime' = now
    /\ starts' = Append(starts, now)
    /\ rpc' = [rpc EXCEPT ![p] = "requestFn"]

\* a caller enters rateLimitedRequest: it goes on at once, or sets the
\* timer for what is left of the interval
enterRateLimited(p) ==
    /\ rpc[p] = "idle"
    /\ requestsLeft > 0
    /\ requestsLeft' = requestsLeft - 1
    /\ LET timeSinceLastRequest == now - lastRequestTime
       IN IF timeSinceLastRequest < MIN_REQUEST_INTERVAL
          THEN /\ rpc' = [rpc EXCEPT ![p] = "setTimeout"]
               /\ wakeAt' = [wakeAt EXCEPT ![p] =
                                now + (MIN_REQUEST_INTERVAL - timeSinceLastRequest)]
               /\ UNCHANGED <<lastRequestTime, starts>>
          ELSE /\ startRequest(p)
               /\ wakeAt' = wakeAt
    /\ now' = now
    /\ UNCHANGED <<batchVars, hookVars, routeVars, cropVars, manualVars,
                   analyzeVars, timeVars, srtVars, stampVars, nameVars,
                   storeVars>>

\* the caller's timer fired, at its due time or later
timerFired(p) ==
    /\ rpc[p] = "setTimeout"
    /\ now >= wakeAt[p]
    /\ startRequest(p)
    /\ UNCHANGED <<now, wakeAt, requestsLeft>>
    /\ UNCHANGED <<batchVars, hookVars, routeVars, cropVars, manualVars,
                   analyzeVars, timeVars, srtVars, stampVars, nameVars,
                   storeVars>>

\* the promise of requestFn settled
requestSettled(p) ==
    /\ rpc[p] = "requestFn"
    /\ rpc' = [rpc EXCEPT ![p] = "idle"]
    /\ UNCHANGED <<now, lastRequestTime, wakeAt, requestsLeft, starts>>
    /\ UNCHANGED <<batchVars, hookVars, routeVars, cropVars, manualVars,
                   analyzeVars, timeVars, srtVars, stampVars, nameVars,
                   storeVars>>

\* time passes
clockAdvances ==
    /\ now + ClockStep <= StartClock + MaxElapsed
    /\ now' = now + ClockStep
    /\ UNCHANGED <<lastRequestTime, rpc, wakeAt, requestsLeft, starts>>
    /\ UNCHANGED <<batchVars, hookVars, routeVars, cropVars, manualVars,
                   analyzeVars, timeVars, srtVars, stampVars, nameVars,
                   storeVars>>

NextRate ==
    \/ \E p \in Callers : enterRateLimited(p)
    \/ \E p \in Callers : timerFired(p)
    \/ \E p \in Callers : requestSettled(p)
    \/ clockAdvances

SpecRate == InitRate /\ [][NextRate]_vars

(* ------------------------------ claims --------------------------------- *)

Recorded == 1..Len(results)

Active == {"Captioning", "Probing", "Encoding", "Finalizing"}

Settled == {"Done", "Failed"}

\* C1: the results array is at every moment the outcomes of a prefix of the
\* clip list, in input order, each carrying the id of its clip; when
\* processAllClips returns there is exactly one result per input clip.
C1_ResultsFollowInput ==
    /\ Len(results) <= Len(clips)
    /\ \A i \in Recorded : results[i].clipId = clips[i].id
    /\ pc = "returned" => Len(results) = Len(clips)

\* C1 witness: a returned batch of at least two clips, one failed and one
\* rendered
C1_Witness ==
    /\ pc = "returned"
    /\ Len(clips) >= 2
    /\ \E i, j \in Recorded : /\ results[i].error # Undefined
                              /\ results[j].error = Undefined

\* C2: a clip that failed has its error in its own result, a per-clip
\* failure never makes processAllClips throw (it throws only before any clip
\* was taken up) and never ends the loop: it returns only when every clip
\* has been processed.
C2_FailureIsolated ==
    /\ \A i \in 1..Len(clips) :
          phase[i] = "Failed" =>
             /\ i \in Recorded
             /\ results[i].clipId = clips[i].id
             /\ results[i].error \in {ErrWriteFile, ErrProbe, ErrEncode}
    /\ pc = "thrown" => \A i \in 1..Len(clips) : phase[i] = "Queued"
    /\ pc = "returned" => \A i \in 1..Len(clips) : phase[i] \in Settled

\* C2 witness: the first clip failed and a later clip was rendered
C2_Witness ==
    /\ pc = "returned"
    /\ Len(clips) >= 2
    /\ phase[1] = "Failed"
    /\ \E j \in 2..Len(clips) : phase[j] = "Done"

\* C3: when checkFFmpeg answers false, processAllClips has thrown and no clip
\* was touched: no caption file, no probe, no encode, no output file, no
\* result.
C3_MissingToolFailsBatch ==
    ffmpeg = "no" =>
       /\ pc = "thrown"
       /\ thrown = ErrFFmpegMissing
       /\ results = <<>>
       /\ srtFiles = {}
       /\ cur = FreshCur
       /\ \A i \in 1..Len(clips) : phase[i] = "Queued" /\ shape[i] = "none"
       /\ \A id \in ClipIds : outFiles[id] = "missing"

\* C3 witness: the check failed for a non-empty batch with a transcript
C3_Witness ==
    /\ ffmpeg = "no"
    /\ Len(clips) >= 1
    /\ hasTranscript

\* C4: at most one clip is in processing, and a clip is taken up only after
\* every clip before it has its result recorded.
C4_Sequential ==
    /\ Cardinality({i \in 1..Len(clips) : phase[i] \in Active}) <= 1
    /\ \A i \in 1..Len(clips) :
          phase[i] # "Queued" =>
             \A j \in 1..(i - 1) : j \in Recorded /\ phase[j] \in Settled

\* C4 witness: the second clip is being encoded
C4_Witness ==
    /\ Len(clips) >= 2
    /\ phase[2] = "Encoding"
    /\ cur.index = 2

C6_CaptionFileDeleted ==
    \A i \in Recorded : clips[i].id \notin srtFiles

\* C7 as stated: a result without error has a non-empty output file.
C7_EmptyOutputIsFailure ==
    \A i \in Recorded :
       results[i].error = Undefined => outFiles[results[i].clipId] = "ok"

\* C8 as stated: once both temporary files were written, both are gone when
\* processClipWithHook returns or throws, and a failed unlink of the hook
\* file does not keep the main file from being unlinked.
C8_TempFilesDeleted ==
    /\ (hookWritten /\ hookPc \in {"returned", "thrown"})
          => (~hookTemp /\ ~mainTemp)
    /\ (hookPc = "returned" /\ hookUnlink.hook = "failed")
          => hookUnlink.main # "none"

\* C9 as stated: caption generation, crop geometry and encode of a clip
\* happen only after its probe succeeded, and a clip whose probe failed
\* (tool error or unparsable output) ends as failed.
C9_NothingWithoutProbe ==
    /\ (cur.captioned \/ cur.geometry \/ cur.encode # "none")
          => cur.probe = "ok"
    /\ (cur.probe \in {"error", "unparsable"} /\ phase[cur.index] \in Settled)
          => phase[cur.index] = "Failed"

\* C10: every result has either a non-empty outputPath or an error, never
\* both and never neither.
C10_PathXorError ==
    \A i \in Recorded :
       (results[i].outputPath # EmptyPath) # (results[i].error # Undefined)

\* C10 witness: the results hold a rendered clip and a failed one
C10_Witness ==
    \E i, j \in Recorded :
       /\ results[i].outputPath = OutputPathOf(clips[i])
       /\ results[i].error = Undefined
       /\ results[j].outputPath = EmptyPath
       /\ results[j].error = ErrEncode

\* C11 as stated: before clip i+1 is taken up the 1 second timer has run
\* after clip i, whether clip i was rendered or failed, and no timer runs
\* after the last clip.
C11_PauseBetweenClips ==
    /\ \A i \in 1..(Len(clips) - 1) : phase[i + 1] # "Queued" => i \in pauses
    /\ Len(clips) \notin pauses

\* the request's clips whose result carries no error / an error
OkClips == {i \in Recorded : results[i].error = Undefined}

BadClips == {i \in Recorded : results[i].error # Undefined}

ProjectFiles == {project.clips[k] : k \in 1..Len(project.clips)}

C13_NeverAllOrNothing ==
    (ffmpeg = "yes" /\ reqPc = "responded") =>
       /\ response.status = 200
       /\ response.success
       /\ Len(response.results) = Len(clips)
       /\ response.processed + response.failed = Len(clips)

\* the rectangle lies inside a frame of the given size
InsideFrame(c, w, h) ==
    /\ ~c.nan
    /\ 0 <= c.cropX
    /\ 0 <= c.cropY
    /\ c.cropWidth <= w
    /\ c.cropHeight <= h
    /\ c.cropX + c.cropWidth <= w
    /\ c.cropY + c.cropHeight <= h

\* C14: for every positive integer width and height and every focusX in
\* [0, 1] (or none), the crop rectangle of processClipComplete and that of
\* processClipWithHook lie inside the source frame: offsets are not negative,
\* the width and height do not exceed the frame's and offset plus extent
\* stays within the frame on both axes.
C14_CropInsideFrame ==
    /\ cropPc \in {"completeDone", "computed"} =>
          InsideFrame(cropOut, cropIn.width, cropIn.height)
    /\ cropPc \in {"hookDone", "computed"} =>
          InsideFrame(cropOutHook, cropIn.width, cropIn.height)

\* C14 witness: both rectangles computed for a wide frame with the focus at
\* the right edge, where the horizontal offset is the largest allowed
C14_Witness ==
    /\ cropPc = "computed"
    /\ cropIn.width * targetHeight > targetWidth * cropIn.height
    /\ cropIn.focusX = FocusDen
    /\ cropOut.cropX > 0
    /\ cropOut.cropX + cropOut.cropWidth = cropIn.width
    /\ cropOutHook = cropOut

\* C19: for every integer n >= 0, parsing the HH:MM:SS text that formatTime
\* produced from n returns n, also from one hour and from 100 hours on.
C19_ParseAfterFormat ==
    timePc = "parsed" => timeOut = Num(timeIn)

\* C19 witness: a value of 100 hours or more, formatted with a three digit
\* hour field, came back from parseTimestamp
C19_Witness ==
    /\ timePc = "parsed"
    /\ timeIn >= 360000
    /\ Len(timeStr) = 9
    /\ timeOut = Num(timeIn)

\* a well-formed timestamp: 2 or 3 colon separated parts, all of them digits
WellFormed(str) ==
    LET pieces == split(trim(removeBrackets(str)), ":")
    IN /\ Len(pieces) \in {2, 3}
       /\ \A k \in 1..Len(pieces) :
             /\ pieces[k] # <<>>
             /\ \A j \in 1..Len(pieces[k]) : IsDigit(pieces[k][j])

\* C20 as stated: parseTimestamp returns the number 0, never NaN, for every
\* input that is not a well-formed timestamp, whether the number of parts is
\* other than 2 or 3 or a part is not numeric.
C20_MalformedYieldsZero ==
    (timePc = "parsedText" /\ ~WellFormed(timeStr)) => timeOut = Num(0)

\* the sections whose Timeline pattern matched
Matched == {i \in 1..Len(sections) :
               /\ ~sections[i].blank
               /\ sections[i].timeLike
               /\ sections[i].timestampMatch # NoMatch}

\* parsed start and end of a matched section
StartOf(i) == parseTimestamp(sections[i].timestampMatch[1])

EndOf(i) == parseTimestamp(sections[i].timestampMatch[2])

\* the section's times are numbers in the right order
Ordered(a, b) == ~a.nan /\ ~b.nan /\ a.v < b.v

ClipIdsReturned == {manualClips[k].id : k \in 1..Len(manualClips)}

\* C15: every clip in the array has startTime < endTime; a section whose
\* parsed startTime >= endTime has no clip in the returned array, every
\* matched section with startTime < endTime has one, and the clips stand in
\* the order of their sections.
C15_InvalidSectionDropped ==
    /\ \A k \in 1..Len(manualClips) :
          Ordered(manualClips[k].startTime, manualClips[k].endTime)
    /\ \A k, l \in 1..Len(manualClips) :
          k < l => manualClips[k].id < manualClips[l].id
    /\ manPc = "returned" =>
          \A i \in Matched :
             Ordered(StartOf(i), EndOf(i)) <=> i \in ClipIdsReturned

\* C15 witness: a section with end before start came before a valid one, and
\* the valid one's clip was returned
C15_Witness ==
    /\ manPc = "returned"
    /\ Len(sections) = 2
    /\ 1 \in Matched /\ EndOf(1).v < StartOf(1).v
    /\ 2 \in Matched /\ Ordered(StartOf(2), EndOf(2))
    /\ ClipIdsReturned = {2}

\* C16: in every clip hookStartTime and hookEndTime are both absent or both
\* present with hookStartTime < hookEndTime; a section whose hook start >=
\* hook end still has its clip, without hook fields; hookIsNotAtStart is
\* true exactly when the hook is present and its start differs from the
\* clip's startTime.
C16_HookFieldsTogether ==
    /\ \A k \in 1..Len(manualClips) :
          LET c == manualClips[k]
              present == c.hookStartTime # NoNumber
          IN /\ present <=> c.hookEndTime # NoNumber
             /\ present <=> c.hookTimestamp # NoMatch
             /\ present => Ordered(c.hookStartTime, c.hookEndTime)
             /\ c.hookIsNotAtStart <=>
                   (present /\ c.hookStartTime # c.startTime)
    /\ manPc = "returned" =>
          \A i \in Matched :
             LET hm == sections[i].hookTimestampMatch
             IN (/\ Ordered(StartOf(i), EndOf(i))
                 /\ hm # NoMatch
                 /\ ~Ordered(parseTimestamp(hm[1]), parseTimestamp(hm[2])))
                => \E k \in 1..Len(manualClips) :
                      /\ manualClips[k].id = i
                      /\ manualClips[k].hookStartTime = NoNumber
                      /\ manualClips[k].hookEndTime = NoNumber
                      /\ manualClips[k].hookTimestamp = NoMatch

\* C16 witness: one returned clip carries a hook that starts after the clip
\* does, another comes from a section whose hook times were reversed
C16_Witness ==
    /\ manPc = "returned"
    /\ \E k \in 1..Len(manualClips) :
          /\ manualClips[k].hookStartTime # NoNumber
          /\ manualClips[k].hookIsNotAtStart
    /\ \E k \in 1..Len(manualClips) :
          LET hm == sections[manualClips[k].id].hookTimestampMatch
          IN /\ hm # NoMatch
             /\ ~Ordered(parseTimestamp(hm[1]), parseTimestamp(hm[2]))

\* C17 as stated: every clip of parseManualAnalysis has a duration from 15
\* to 90 seconds.
C17_DurationInRange ==
    \A k \in 1..Len(manualClips) :
       /\ ~manualClips[k].duration.nan
       /\ 15 <= manualClips[k].duration.v
       /\ manualClips[k].duration.v <= 90

\* C18 as stated: every returned recommendation has
\* 0 <= startTime < endTime <= videoDuration, 15 <= endTime - startTime <= 60,
\* duration = endTime - startTime and a viralScore from 1 to 10.
C18_RecommendationPolicy ==
    \A k \in 1..Len(recommendations) :
       LET r == recommendations[k]
       IN /\ r.startTime # NoNumber /\ r.endTime # NoNumber
          /\ 0 <= r.startTime.v
          /\ r.startTime.v < r.endTime.v
          /\ r.endTime.v <= videoDuration
          /\ 15 <= r.endTime.v - r.startTime.v
          /\ r.endTime.v - r.startTime.v <= 60
          /\ r.duration = Num(r.endTime.v - r.startTime.v)
          /\ ~r.viralScore.nan
          /\ 1 <= r.viralScore.v
          /\ r.viralScore.v <= 10

\* the positions of the transcript segments that start inside the window
WindowSegments ==
    {i \in 1..Len(srtIn.segments) :
        /\ srtIn.startOffset <= srtIn.segments[i].start
        /\ srtIn.segments[i].start < srtIn.endTime}

\* the time a written timestamp stands for, in milliseconds
StampMs(stamp) ==
    ((stamp.hours * 60 + stamp.minutes) * 60 + stamp.secs) * 1000 + stamp.ms

\* a written time is within 1 ms of a time given in ticks
Within1Ms(stamp, ticks) ==
    /\ StampMs(stamp) * TicksPerMs - ticks <= TicksPerMs
    /\ ticks - StampMs(stamp) * TicksPerMs <= TicksPerMs

SrtBuilt == srtPc \in {"writeFile", "written", "thrown"}

\* C21: the track has exactly one cue for each segment that starts inside
\* [startOffset, endTime), none for another segment, the cues stand in
\* transcript order and are numbered 1..n, and the end of a cue lies the
\* segment's whole duration after its start, also when that is after endTime.
C21_OneCuePerWindowSegment ==
    SrtBuilt =>
       /\ Len(srtCues) = Cardinality(WindowSegments)
       /\ {srtCues[k].text : k \in 1..Len(srtCues)} = WindowSegments
       /\ \A k \in 1..Len(srtCues) : srtCues[k].counter = k
       /\ \A k, l \in 1..Len(srtCues) : k < l => srtCues[k].text < srtCues[l].text
       /\ \A k \in 1..Len(srtCues) :
             LET seg == srtIn.segments[srtCues[k].text]
             IN Within1Ms(srtCues[k].end,
                          seg.start - srtIn.startOffset + seg.duration)

\* C21 witness: of two segments the first starts inside the window and ends
\* after its end, the second starts at the window's end; one cue was written
C21_Witness ==
    /\ srtPc = "written"
    /\ Len(srtIn.segments) = 2
    /\ WindowSegments = {1}
    /\ srtIn.segments[1].start + srtIn.segments[1].duration > srtIn.endTime
    /\ srtIn.segments[2].start = srtIn.endTime
    /\ Len(srtCues) = 1

\* C22: for every cue, with k the segment's start minus startOffset, the
\* written start is within 1 ms of k, the written end within 1 ms of k plus
\* the segment's duration, and no written start is before 0.
C22_CuesRebased ==
    SrtBuilt =>
       \A c \in 1..Len(srtCues) :
          LET seg == srtIn.segments[srtCues[c].text]
              k   == seg.start - srtIn.startOffset
          IN /\ Within1Ms(srtCues[c].start, k)
             /\ Within1Ms(srtCues[c].end, k + seg.duration)
             /\ StampMs(srtCues[c].start) >= 0
             /\ srtCues[c].start.hours >= 0

\* C22 witness: a cue for a segment that starts 1.9996 s into a window whose
\* start is not 0
C22_Witness ==
    /\ srtPc = "written"
    /\ srtIn.startOffset > 0
    /\ \E c \in 1..Len(srtCues) :
          /\ srtIn.segments[srtCues[c].text].start - srtIn.startOffset = 19996
          /\ StampMs(srtCues[c].start) = 2000

\* C26 as stated: the text formatSrtTimestamp writes has a millisecond field
\* of three digits within 000..999 and seconds and minutes fields within
\* 00..59.
C26_StampWellFormed ==
    stampPc = "formatted" =>
       /\ stampOut.ms \in 0..999
       /\ stampOut.secs \in 0..59
       /\ stampOut.minutes \in 0..59
       /\ Len(stampOut.text) = Max(2, Len(toString(stampOut.hours))) + 10

\* C23: when the transcript has no segments, no caption file is written for
\* any clip, no clip is in the caption step, the encode of each clip runs
\* with a filter chain that has no subtitles filter, and no recorded failure
\* is one of writing captions.
C23_NoTranscriptNoCaptions ==
    (pc # "idle" /\ ~hasTranscript) =>
       /\ srtFiles = {}
       /\ \A i \in 1..Len(clips) : phase[i] \notin {"Captioning", "Finalizing"}
       /\ cur.geometry => ~SubtitleFilter(cur.srtPath)
       /\ ~cur.captioned
       /\ \A k \in Recorded : results[k].error \in {Undefined, ErrProbe, ErrEncode}

\* C23 witness: a batch of two clips without transcript has returned, both
\* clips rendered
C23_Witness ==
    /\ ~hasTranscript
    /\ pc = "returned"
    /\ Len(clips) = 2
    /\ \A i \in 1..2 : phase[i] = "Done" /\ results[i].error = Undefined

\* C24 as stated: two clips of one batch with different ids never use the
\* same path, whether caption file, hook or main temporary file or output.
C24_PathsNotShared ==
    namePc = "named" =>
       \A k, l \in 1..Len(nameIn) :
          nameIn[k].id # nameIn[l].id => namePaths[k] \cap namePaths[l] = {}

Terminated == pc \in {"returned", "thrown"}

\* the clip at position i has exactly one result, and its phase is terminal
SettledOnce(i) ==
    /\ phase[i] \in Settled
    /\ Cardinality({k \in Recorded : results[k].clipId = clips[i].id}) = 1

\* C25 as stated: when processAllClips has ended, every clip has reached a
\* terminal outcome.
C25_NoClipWithoutOutcome ==
    Terminated => \A i \in 1..Len(clips) : SettledOnce(i)

\* C25 amended: a call of processAllClips ends; when it returns every clip
\* has exactly one terminal outcome, when it rejects (tool missing, directory
\* not created) no clip has one; a terminal outcome never changes and a
\* clip never has two results.
C25_TerminatesWithOneOutcomeEach ==
    /\ (pc = "checkFFmpeg") ~> Terminated
    /\ [](pc = "returned" => \A i \in 1..Len(clips) : SettledOnce(i))
    /\ [](pc = "thrown" => \A i \in 1..Len(clips) : phase[i] = "Queued")
    /\ [](\A i \in 1..Len(clips) :
             Cardinality({k \in Recorded : results[k].clipId = clips[i].id}) <= 1)
    /\ [][\A i \in 1..Len(clips) :
             phase[i] \in Settled =>
                /\ Len(clips') = Len(clips)
                /\ phase'[i] = phase[i]]_vars

\* C25 witness: a batch of two clips returned, one rendered and one failed
C25_Witness ==
    /\ pc = "returned"
    /\ Len(clips) = 2
    /\ phase[1] = "Failed"
    /\ phase[2] = "Done"
    /\ Len(results) = 2

\* the calls of the given kind that returned normally
Returned(kind) ==
    {k \in 1..Len(log) : log[k].call.kind = kind /\ log[k].outcome = "ok"}

\* how often a file name stands in a clip list
Occurrences(list, name) == Cardinality({k \in 1..Len(list) : list[k] = name})

\* the positions in a projects array of the projects with the given id
Stored(projects, id) == {k \in 1..Len(projects) : projects[k].id = id}

\* no store call is under way
StoreQuiet == \A p \in Callers : cpc[p] = "idle"

\* C27 as stated: when addClipToProject calls of the two requests for one
\* project have both completed, the project's clip list in the store holds
\* the file names added by both.
C27_NoRegistrationLost ==
    StoreQuiet =>
       \A k, l \in Returned("addClipToProject") :
          (/\ log[k].caller # log[l].caller
           /\ log[k].call.projectId = log[l].call.projectId
           /\ Returned("deleteProject") = {}
           /\ Returned("getOrCreate") = {}
           /\ Stored(store, log[k].call.projectId) # {})
          => \A j \in Stored(store, log[k].call.projectId) :
                /\ Occurrences(store[j].clips, log[k].call.clipFilename) = 1
                /\ Occurrences(store[j].clips, log[l].call.clipFilename) = 1

\* C28: the store never holds two projects with the same videoId, also while
\* get-or-create steps of the two requests for one video interleave.
C28_OneProjectPerVideo ==
    \A k, l \in 1..Len(store) :
       k # l => store[k].videoId # store[l].videoId

\* C28 witness: both requests ran createProject for the same video at the
\* same time, each got a project id of its own, and the store holds one
\* project for the video
C28_Witness ==
    /\ StoreQuiet
    /\ \E k, l \in Returned("getOrCreate") :
          /\ log[k].caller # log[l].caller
          /\ log[k].call.videoId = log[l].call.videoId
          /\ log[k].returned # log[l].returned
    /\ Len(store) = 1

\* C30: addClipToProject and deleteProject for a project id that is not in
\* the array read from the store end with 'not found' and leave the store
\* as it is; a file name never stands twice in a project's clip list, and
\* when a addClipToProject call has saved, the name stands there once.
C30_NotFoundAndNoDuplicate ==
    /\ [](\A k \in 1..Len(store) : \A f \in FileNames :
             Occurrences(store[k].clips, f) <= 1)
    /\ [][\A p \in Callers :
             (/\ cpc[p] = "getProjects"
              /\ cpc'[p] # "getProjects"
              /\ op[p].kind \in {"addClipToProject", "deleteProject"}
              /\ Stored(store, op[p].projectId) = {})
             => /\ Len(log') = Len(log) + 1
                /\ log'[Len(log')].outcome = "notFound"
                /\ store' = store]_vars
    /\ [][\A p \in Callers :
             (/\ cpc[p] = "saveProjects"
              /\ op[p].kind = "addClipToProject"
              /\ Len(log') = Len(log) + 1
              /\ log'[Len(log')].caller = p
              /\ log'[Len(log')].outcome = "ok")
             => /\ Stored(store', op[p].projectId) # {}
                /\ \A k \in Stored(store', op[p].projectId) :
                      Occurrences(store'[k].clips, op[p].clipFilename) = 1]_vars

\* C30 witness: addClipToProject returned twice for the same project and
\* file name, a call for an unknown id ended with 'not found', and the name
\* stands once in the list
C30_Witness ==
    /\ StoreQuiet
    /\ \E k, l \in Returned("addClipToProject") :
          /\ k # l
          /\ log[k].call = log[l].call
          /\ \E j \in Stored(store, log[k].call.projectId) :
                Occurrences(store[j].clips, log[k].call.clipFilename) = 1
    /\ \E k \in 1..Len(log) :
          /\ log[k].outcome = "notFound"
          /\ log[k].call.projectId = BogusId

\* C29 as stated: any two requests started through rateLimitedRequest start
\* at least MIN_REQUEST_INTERVAL apart.
C29_RequestsSpaced ==
    \A k, l \in 1..Len(starts) :
       k < l => starts[l] - starts[k] >= MIN_REQUEST_INTERVAL

====
